---- MODULE Spec2Model ----
(***************************************************************************)
(* Model of the structural graph engine of unbored.ai:                     *)
(*   scanner.build_dependency_graph   (import resolver + graph builder)    *)
(*   score_repo_files.score_files     (importance scorer)                  *)
(*   generate_graph_position.main     (layout engine)                      *)
(*                                                                         *)
(* Text is modelled as a sequence of tokens: "./b.js" is                   *)
(* <<".", "/", "b", ".", "js">>.  The tokens "." "/" "," are the           *)
(* punctuation the code splits on; every other token is a run of letters   *)
(* that the code never looks inside.  A pathlib.Path is the sequence of    *)
(* its component names, each name a token sequence.                        *)
(***************************************************************************)
EXTENDS Integers, Sequences, FiniteSets, TLC

VARIABLES
    files,      \* regular files of the filesystem (absolute paths)
    dirs,       \* directories of the filesystem (absolute paths)
    text,       \* file -> its import statements, in textual order
    marks,      \* file -> content cues read by the scorer's regexes
    nul,        \* files with a NUL byte in their first 2048 bytes
    size,       \* file -> st_size
    gitlog,     \* repository-relative path string -> lines of `git log`
    git_rc,     \* return code of the `git log` subprocess
    unreadable, \* files whose read_text raises (permissions, I/O error)
    listing,    \* order in which the OS enumerates the files
    top_n,      \* caller-supplied N of score_files
    pc,         \* position in build_dependency_graph
    spc,        \* position in score_files
    src_files,  \* build_dependency_graph: src_files
    node_ids,   \* build_dependency_graph: node_ids (insertion ordered)
    edges,      \* build_dependency_graph: edges
    k,          \* index of the file the current loop is at
    sfiles,     \* score_files: files
    imported_by_count,  \* score_files: imported_by_count, as <<rel, n>> items
    churn,      \* score_files: churn
    scored,     \* score_files: scored
    result,     \* value returned by score_files
    call,       \* a call of a pure function: its name and arguments
    ret,        \* the value that call returned
    data,       \* generate_graph_position.main: the parsed input graph
    lpc,        \* position in generate_graph_position.main
    G,          \* main: the networkx graph G
    comms,      \* pack_communities: comms
    sims,       \* the spring_layout calls made so far
    layout,     \* main: pos, the dict of positions
    written     \* main: out, the JSON value written to --output

vars == <<files, dirs, text, marks, nul, size, gitlog, git_rc, unreadable,
          listing, top_n, pc, spc,
          src_files, node_ids, edges, k, sfiles, imported_by_count, churn,
          scored, result, call, ret, data, lpc, G, comms, sims, layout,
          written>>

\* the repository, which no operation writes
fsvars == <<files, dirs, text, marks, nul, size, gitlog, git_rc, unreadable,
            listing>>

\* the state of the other components
restvars == <<call, ret, data, lpc, G, comms, sims, layout, written>>

\* the state of generate_graph_position.main
layoutvars == <<data, lpc, G, comms, sims, layout, written>>

\* the state of build_dependency_graph
scanvars == <<pc, src_files, node_ids, edges>>

\* the state of score_files
scorevars == <<spc, sfiles, imported_by_count, churn, scored, result, top_n>>

-----------------------------------------------------------------------------
(* Bounds of the model *)

MaxFiles == 3

MaxImports == 2

MaxTouches == 6

MaxImportedBy == 3

MaxLayoutNodes == 3

MaxLayoutEdges == 2

MaxParts == 2

ClusterSize == 40

MaxNodeCount == 150

MaxViewportCount == 250

-----------------------------------------------------------------------------
(* Text helpers *)

DOT == "."

SLASH == "/"

Last(s) == s[Len(s)]

Front(s) == SubSeq(s, 1, Len(s) - 1)

Range(s) == {s[i] : i \in 1..Len(s)}

StartsWith(s, pre) ==
    /\ Len(pre) <= Len(s)
    /\ SubSeq(s, 1, Len(pre)) = pre

EndsWith(s, suf) ==
    /\ Len(suf) <= Len(s)
    /\ SubSeq(s, Len(s) - Len(suf) + 1, Len(s)) = suf

\* pat in s
Contains(s, pat) ==
    \E i \in 1..(Len(s) - Len(pat) + 1) : SubSeq(s, i, i + Len(pat) - 1) = pat

\* s.rfind(tok), 1-based; 0 when absent
RFind(s, tok) ==
    IF \E i \in 1..Len(s) : s[i] = tok
    THEN CHOOSE i \in 1..Len(s) : s[i] = tok /\ \A j \in (i+1)..Len(s) : s[j] # tok
    ELSE 0

\* s.find(tok), 1-based; 0 when absent
Find(s, tok) ==
    IF \E i \in 1..Len(s) : s[i] = tok
    THEN CHOOSE i \in 1..Len(s) : s[i] = tok /\ \A j \in 1..(i-1) : s[j] # tok
    ELSE 0

RECURSIVE SplitOn(_, _)
\* s.split(sep)
SplitOn(s, sep) ==
    LET i == Find(s, sep) IN
    IF i = 0 THEN <<s>>
    ELSE <<SubSeq(s, 1, i - 1)>> \o SplitOn(SubSeq(s, i + 1, Len(s)), sep)

RECURSIVE JoinWith(_, _)
\* sep.join(parts)
JoinWith(parts, sep) ==
    IF Len(parts) = 0 THEN <<>>
    ELSE IF Len(parts) = 1 THEN parts[1]
    ELSE parts[1] \o <<sep>> \o JoinWith(Tail(parts), sep)

RECURSIVE LStripDots(_)
\* module.lstrip(".")
LStripDots(s) ==
    IF Len(s) > 0 /\ s[1] = DOT THEN LStripDots(Tail(s)) ELSE s

RECURSIVE SelectSeqOf(_, _)
\* the subsequence of s of the elements in the set keep
SelectSeqOf(s, keep) ==
    IF Len(s) = 0 THEN <<>>
    ELSE (IF s[1] \in keep THEN <<s[1]>> ELSE <<>>) \o SelectSeqOf(Tail(s), keep)

RECURSIVE Flatten(_)
Flatten(ss) ==
    IF Len(ss) = 0 THEN <<>> ELSE ss[1] \o Flatten(Tail(ss))

RECURSIVE Orderings(_)
\* the orders in which a finite set can be enumerated
Orderings(S) ==
    IF S = {} THEN {<<>>}
    ELSE UNION { { <<x>> \o rest : rest \in Orderings(S \ {x}) } : x \in S }

-----------------------------------------------------------------------------
(* pathlib *)

None == [ok |-> FALSE]

Some(p) == [ok |-> TRUE, path |-> p]

Name(p) == IF Len(p) = 0 THEN <<>> ELSE Last(p)

\* PurePath.suffix
Suffix(p) ==
    LET name == Name(p)
        i == RFind(name, DOT)
    IN  IF 1 < i /\ i < Len(name) THEN SubSeq(name, i, Len(name)) ELSE <<>>

\* PurePath.stem
Stem(p) ==
    LET name == Name(p)
        i == RFind(name, DOT)
    IN  IF 1 < i /\ i < Len(name) THEN SubSeq(name, 1, i - 1) ELSE name

\* PurePath.parent (the parent of the filesystem root is the root)
Parent(p) == IF Len(p) = 0 THEN p ELSE Front(p)

RECURSIVE Normalize(_, _)
\* Path.resolve() of acc / rest on a filesystem without symbolic links
Normalize(acc, rest) ==
    IF Len(rest) = 0 THEN acc
    ELSE IF rest[1] = <<>> \/ rest[1] = <<DOT>> THEN Normalize(acc, Tail(rest))
    ELSE IF rest[1] = <<DOT, DOT>> THEN Normalize(Parent(acc), Tail(rest))
    ELSE Normalize(Append(acc, rest[1]), Tail(rest))

\* (dir / spec).resolve()
JoinResolve(dir, spec) == Normalize(dir, SplitOn(spec, SLASH))

\* Path(str(p) + ext) for an extension without a slash
WithExt(p, ext) ==
    IF Len(p) = 0 THEN <<ext>> ELSE Append(Front(p), Last(p) \o ext)

Exists(p) == p \in files \/ p \in dirs

IsDir(p) == p \in dirs

IsRelativeTo(p, root) == StartsWith(p, root)

\* p.relative_to(root), defined when IsRelativeTo(p, root)
RelativeTo(p, root) == SubSeq(p, Len(root) + 1, Len(p))

\* PurePath.as_posix() of a relative path
AsPosix(rel) == IF Len(rel) = 0 THEN <<DOT>> ELSE JoinWith(rel, SLASH)

-----------------------------------------------------------------------------
(* scanner.py: tunables *)

Tok(w) == <<w>>

DotName(w) == <<DOT, w>>

File(stem, ext) == <<stem, DOT, ext>>

IGNORED_DIRS ==
    { DotName("git"), DotName("hg"), DotName("svn"),
      Tok("node_modules"), DotName("pnpm-store"),
      DotName("venv"), Tok("venv"), Tok("__pycache__"),
      Tok("dist"), Tok("build"), DotName("next"), DotName("nuxt"), Tok("out"),
      DotName("cache"), DotName("idea"), DotName("vscode"),
      DotName("terraform"), Tok("target"), Tok("coverage"),
      DotName("pytest_cache"), DotName("mypy_cache") }

BINARY_EXTS ==
    { DotName(e) : e \in { "png", "jpg", "jpeg", "gif", "webp", "ico", "pdf",
                           "zip", "tar", "gz", "tgz", "7z", "woff", "woff2",
                           "ttf", "otf", "mp3", "mp4", "mov", "avi" } }

JS_TS_EXTS == { DotName(e) : e \in {"js", "jsx", "ts", "tsx", "mjs", "cjs", "vue"} }

PY_EXTS == { DotName("py") }

JS_TS_INDEX_CANDIDATES ==
    << File("index", "ts"), File("index", "tsx"), File("index", "js"),
       File("index", "jsx"), File("index", "mjs"), File("index", "cjs"),
       File("index", "vue") >>

JS_TS_FILE_EXTS_TRY ==
    << DotName("ts"), DotName("tsx"), DotName("js"), DotName("jsx"),
       DotName("mjs"), DotName("cjs"), DotName("vue"), DotName("json") >>

\* "/__init__.py" is appended as one more path component
PY_FILE_EXTS_TRY == << DotName("py"), <<SLASH, "__init__", DOT, "py">> >>

\* statement kinds matched by RE_JS_IMPORTS (groups imp1..imp5)
RE_JS_IMPORTS == {"import_from", "import", "export_from", "require", "dynamic"}

\* statement kinds matched by RE_PY_IMPORTS (groups from, imp)
RE_PY_IMPORTS == {"py_from", "py_import"}

-----------------------------------------------------------------------------
(* scanner.py: helpers *)

should_ignore_dir(name) == name \in IGNORED_DIRS \/ StartsWith(name, <<DOT>>)

is_binary(p) == Suffix(p) \in BINARY_EXTS \/ p \in nul

\* the first element of cands that exists, as an option
RECURSIVE FirstExisting(_)
FirstExisting(cands) ==
    IF Len(cands) = 0 THEN None
    ELSE IF Exists(cands[1]) THEN Some(cands[1])
    ELSE FirstExisting(Tail(cands))

\* _resolve_js_like without its `if not spec.startswith(".")` return
resolve_js_like_any(spec, src_file, root) ==
    LET base == JoinResolve(Parent(src_file), spec)
        byExt == FirstExisting([i \in 1..Len(JS_TS_FILE_EXTS_TRY) |->
                                  WithExt(base, JS_TS_FILE_EXTS_TRY[i])])
        byIndex == FirstExisting([i \in 1..Len(JS_TS_INDEX_CANDIDATES) |->
                                  Append(base, JS_TS_INDEX_CANDIDATES[i])])
    IN  IF Suffix(base) # <<>> /\ Exists(base) THEN Some(base)
        ELSE IF byExt.ok THEN byExt
        ELSE IF Exists(base) /\ IsDir(base) THEN byIndex
        ELSE None

resolve_js_like(spec, src_file, root) ==
    IF ~StartsWith(spec, <<DOT>>) THEN None
    ELSE
      LET base == JoinResolve(Parent(src_file), spec)
          byExt == FirstExisting([i \in 1..Len(JS_TS_FILE_EXTS_TRY) |->
                                    WithExt(base, JS_TS_FILE_EXTS_TRY[i])])
          byIndex == FirstExisting([i \in 1..Len(JS_TS_INDEX_CANDIDATES) |->
                                    Append(base, JS_TS_INDEX_CANDIDATES[i])])
      IN  IF Suffix(base) # <<>> /\ Exists(base) THEN Some(base)
          ELSE IF byExt.ok THEN byExt
          ELSE IF Exists(base) /\ IsDir(base) THEN byIndex
          ELSE None

RECURSIVE Ascend(_, _)
\* target_dir after `for _ in range(dots): target_dir = target_dir.parent`
Ascend(dir, dots) == IF dots = 0 THEN dir ELSE Ascend(Parent(dir), dots - 1)

\* Path(str(target_dir) + suffix)
PyCandidate(target_dir, suffix) ==
    IF suffix[1] = SLASH THEN Append(target_dir, Tail(suffix))
    ELSE WithExt(target_dir, suffix)

resolve_py_like(module, src_file, root) ==
    IF ~StartsWith(module, <<DOT>>) THEN None
    ELSE
      LET remainder == LStripDots(module)
          dots == Len(module) - Len(remainder)
          up == Ascend(Parent(src_file), dots)
          target_dir == IF remainder # <<>>
                        THEN up \o SplitOn(remainder, DOT)
                        ELSE up
      IN  FirstExisting([i \in 1..Len(PY_FILE_EXTS_TRY) |->
                           PyCandidate(target_dir, PY_FILE_EXTS_TRY[i])])

\* the yield without the relative_to(root) guard
YieldOfUnguarded(tgt, root) ==
    IF ~tgt.ok THEN <<>>
    ELSE IF ~IsRelativeTo(tgt.path, root) THEN <<tgt.path>>
    ELSE <<RelativeTo(tgt.path, root)>>

\* what one matched statement makes _extract_imports_for_file yield
YieldOf(tgt, root) ==
    IF ~tgt.ok THEN <<>>
    ELSE IF ~IsRelativeTo(tgt.path, root) THEN <<>>
    ELSE <<RelativeTo(tgt.path, root)>>

RECURSIVE ExtractFrom(_, _, _)
ExtractFrom(stmts, fpath, root) ==
    IF Len(stmts) = 0 THEN <<>>
    ELSE
      LET st == stmts[1]
          suffix == Suffix(fpath)
          out == IF suffix \in JS_TS_EXTS /\ st.kind \in RE_JS_IMPORTS
                 THEN YieldOf(resolve_js_like(st.spec, fpath, root), root)
                 ELSE IF suffix \in PY_EXTS /\ st.kind \in RE_PY_IMPORTS
                 THEN YieldOf(resolve_py_like(st.spec, fpath, root), root)
                 ELSE <<>>
      IN  out \o ExtractFrom(Tail(stmts), fpath, root)

\* _read_text: a path that is not a readable file reads as ""
read_text(path) == IF path \in files THEN text[path] ELSE <<>>

extract_imports_for_file(fpath, root) == ExtractFrom(read_text(fpath), fpath, root)

\* _add_node with its membership test inverted
add_node_inverted(nodes, rel) ==
    LET rid == AsPosix(rel) IN
    IF \E i \in 1..Len(nodes) : nodes[i].id = rid
    THEN Append(nodes, [id |-> rid, label |-> Name(rel)])
    ELSE nodes

\* _add_node without its membership test
add_node_always(nodes, rel) ==
    Append(nodes, [id |-> AsPosix(rel), label |-> Name(rel)])

\* _add_node of build_dependency_graph
add_node(nodes, rel) ==
    LET rid == AsPosix(rel) IN
    IF \E i \in 1..Len(nodes) : nodes[i].id = rid THEN nodes
    ELSE Append(nodes, [id |-> rid, label |-> Name(rel)])

RECURSIVE AddNodes(_, _)
AddNodes(nodes, rels) ==
    IF Len(rels) = 0 THEN nodes
    ELSE AddNodes(add_node(nodes, rels[1]), Tail(rels))

\* os.walk(root) with the ignored directories pruned
Walked(p, root) ==
    /\ IsRelativeTo(p, root)
    /\ p \in files
    /\ \A i \in (Len(root) + 1)..(Len(p) - 1) : ~should_ignore_dir(p[i])

IsScannerSource(p, root) ==
    /\ Walked(p, root)
    /\ ~is_binary(p)
    /\ Suffix(p) \in (JS_TS_EXTS \cup PY_EXTS)

-----------------------------------------------------------------------------
(* score_repo_files.py: tunables *)

DEFAULT_EXTS == { DotName(e) : e \in {"py", "js", "jsx", "ts", "tsx"} }

IGNORE_DIRS ==
    { DotName("git"), Tok("node_modules"), DotName("venv"), Tok("dist"),
      Tok("build"), Tok("__pycache__"), DotName("mypy_cache"), DotName("tox"),
      DotName("idea") }

MAX_FILE_BYTES == 400000

ENTRYPOINT_NAMES ==
    {"main", "app", "server", "cli", "manage", "index", "wsgi", "asgi"}

RUNTIME_PATH_HINTS ==
    { <<h, SLASH>> : h \in { "server", "api", "routes", "router", "controllers",
                             "controller", "services", "service", "db",
                             "database", "models", "entities", "auth",
                             "workers", "jobs" } }

TOOLING_BASENAMES ==
    { <<"eslint", DOT, "config", DOT, "js">>, <<"eslint", DOT, "config", DOT, "cjs">>,
      <<DOT, "eslintrc", DOT, "js">>, <<DOT, "eslintrc", DOT, "cjs">>,
      <<DOT, "eslintrc", DOT, "ts">>, <<DOT, "eslintrc", DOT, "json">>,
      <<"tailwind", DOT, "config", DOT, "js">>, <<"tailwind", DOT, "config", DOT, "cjs">>,
      <<"postcss", DOT, "config", DOT, "js">>, <<"postcss", DOT, "config", DOT, "cjs">>,
      <<"lint-staged", DOT, "config", DOT, "js">>,
      <<"lint-staged", DOT, "config", DOT, "cjs">>,
      <<"prettier", DOT, "config", DOT, "js">>, <<DOT, "prettierrc">>,
      <<DOT, "prettierrc", DOT, "json">>, <<DOT, "prettierrc", DOT, "js">>,
      <<"vitest", DOT, "config", DOT, "ts">>, <<"vitest", DOT, "config", DOT, "js">>,
      <<"jest", DOT, "config", DOT, "js">>, <<"jest", DOT, "config", DOT, "ts">>,
      <<"tsconfig", DOT, "json">> }

TYPES_ONLY_SUFFIXES == { <<DOT, "d", DOT, "ts">> }

TEST_SEGMENTS ==
    { <<SLASH, "test", SLASH>>, <<SLASH, "tests", SLASH>>, <<SLASH, "__tests__">>,
      <<SLASH, "fixtures", SLASH>>, <<DOT, "spec", DOT>>, <<DOT, "test", DOT>> }

W_ENTRYPOINT == 4

W_RUNTIME == 3

W_IMPORTED_BY == 2

W_CHURN == 1

W_TOOLING_PENALTY == -3

W_TEST_PENALTY == -2

W_TYPES_PENALTY == -1

CHURN_CAP == 5

\* top_n default of select_top_files_local
DefaultTopN == 30

\* suffixes of the JS branch of build_import_graph and detect_entrypoint
SCORER_JS_SUFFIXES == { DotName(e) : e \in {"js", "jsx", "ts", "tsx"} }

\* statement kinds matched by JS_IMPORT_RE
JS_IMPORT_RE == {"import_from", "import"}

\* statement kinds matched by JS_REQUIRE_RE (`const x = require('...')`)
JS_REQUIRE_RE == {"require"}

-----------------------------------------------------------------------------
(* score_repo_files.py: helpers *)

Min(a, b) == IF a <= b THEN a ELSE b

Max(a, b) == IF a >= b THEN a ELSE b

SP == " "

NL == "\n"

RECURSIVE LStrip(_)
LStrip(s) == IF Len(s) > 0 /\ s[1] \in {SP, NL} THEN LStrip(Tail(s)) ELSE s

RECURSIVE RStrip(_)
RStrip(s) == IF Len(s) > 0 /\ Last(s) \in {SP, NL} THEN RStrip(Front(s)) ELSE s

\* str.strip()
Strip(s) == RStrip(LStrip(s))

\* the source line of a Python import statement
Line(st) ==
    IF st.kind = "py_from"
    THEN <<"from", SP>> \o st.spec \o <<SP, "import", SP, "x">>
    ELSE <<"import", SP>> \o st.spec

RECURSIVE LinesAfter(_)
LinesAfter(stmts) ==
    IF Len(stmts) = 0 THEN <<>>
    ELSE <<NL>> \o Line(stmts[1]) \o LinesAfter(Tail(stmts))

\* the stems build_import_graph takes from one captured module list
StemsOf(mod) ==
    LET mods == SplitOn(mod, ",")
        stems == { SplitOn(Strip(mods[i]), DOT)[1] : i \in 1..Len(mods) }
    IN  IF Strip(mod) = <<>> THEN {} ELSE stems \ {<<>>}

RECURSIVE PyImportedKeys(_)
\* PY_IMPORT_RE over the import lines of a file.  Group 1 captures the module
\* of `from M import`; group 2, [\w\.,\s]+, captures the module list of
\* `import M` and runs on over every following line made of word characters,
\* dots, commas and blanks, which the import lines after it are.
PyImportedKeys(stmts) ==
    IF Len(stmts) = 0 THEN {}
    ELSE IF stmts[1].kind = "py_from"
    THEN StemsOf(Strip(stmts[1].spec)) \cup PyImportedKeys(Tail(stmts))
    ELSE IF stmts[1].kind = "py_import"
    THEN StemsOf(Strip(stmts[1].spec \o LinesAfter(Tail(stmts))))
    ELSE PyImportedKeys(Tail(stmts))

\* os.path.basename(spec).split(".")[0]
JsStem(spec) == SplitOn(Last(SplitOn(spec, SLASH)), DOT)[1]

JsImportedKeys(stmts) ==
    { JsStem(stmts[i].spec) :
        i \in { n \in 1..Len(stmts) :
                  /\ stmts[n].kind \in (JS_IMPORT_RE \cup JS_REQUIRE_RE)
                  /\ StartsWith(stmts[n].spec, <<DOT>>) } } \ {<<>>}

\* content in which none of the scorer's regexes matches
NoMarks == [entry |-> FALSE, db |-> FALSE, role |-> FALSE, env |-> FALSE]

\* the content "": no statement, no cue
EmptyContent == [stmts |-> <<>>, cues |-> NoMarks]

\* read_text_safely without its `except Exception: return ""`
read_text_unguarded(path) ==
    IF path \in files THEN [stmts |-> text[path], cues |-> marks[path]]
    ELSE EmptyContent

\* read_text_safely: the content of the file, "" when reading it raises
read_text_safely(path) ==
    IF path \in files /\ path \notin unreadable
    THEN [stmts |-> text[path], cues |-> marks[path]]
    ELSE EmptyContent

\* imported_keys of one file in build_import_graph
imported_keys(p) ==
    IF Suffix(p) = DotName("py") THEN PyImportedKeys(read_text_safely(p).stmts)
    ELSE IF Suffix(p) \in SCORER_JS_SUFFIXES
         THEN JsImportedKeys(read_text_safely(p).stmts)
    ELSE {}

\* str(p.relative_to(repo_root)).replace("\\", "/")
RelStr(p, root) == AsPosix(RelativeTo(p, root))

\* iter_source_files keeps p
IsScorerSource(p, root) ==
    /\ IsRelativeTo(p, root)
    /\ p \in files
    /\ Suffix(p) \in DEFAULT_EXTS
    /\ \A i \in (Len(root) + 1)..Len(p) : p[i] \notin IGNORE_DIRS
    /\ size[p] <= MAX_FILE_BYTES

\* build_import_graph: the items of imported_by_count, in insertion order
build_import_graph(fs, root) ==
    LET keys == { Stem(fs[i]) : i \in 1..Len(fs) }
        imported_by(key) ==
            Cardinality({ i \in 1..Len(fs) : key \in imported_keys(fs[i]) /\ key \in keys })
    IN  [i \in 1..Len(fs) |-> <<RelStr(fs[i], root), imported_by(Stem(fs[i]))>>]

\* imported_by_count.get(rel, 0)
CountOf(items, rel) ==
    IF \E i \in 1..Len(items) : items[i][1] = rel
    THEN items[CHOOSE i \in 1..Len(items) : items[i][1] = rel][2]
    ELSE 0

\* run: `if p.returncode: raise RuntimeError`
run_raises(returncode) == returncode # 0

\* compute_churn: the Counter of the paths `git log --name-only` prints
compute_churn(out) == out

\* churn.get(rel, 0)
TouchesOf(counter, rel) == IF rel \in DOMAIN counter THEN counter[rel] ELSE 0

Bit(b) == IF b THEN 1 ELSE 0

detect_entrypoint(path, content) ==
    LET name == Stem(path) IN
    IF Len(name) > 0 /\ name[1] \in ENTRYPOINT_NAMES THEN 1
    ELSE IF Suffix(path) = DotName("py") /\ content.entry THEN 1
    ELSE IF Suffix(path) \in SCORER_JS_SUFFIXES /\ content.entry THEN 1
    ELSE 0

is_tooling_config(path) == Bit(Last(SplitOn(path, SLASH)) \in TOOLING_BASENAMES)

is_test_or_fixture(path) == Bit(\E seg \in TEST_SEGMENTS : Contains(path, seg))

is_types_only(path) == Bit(\E suf \in TYPES_ONLY_SUFFIXES : EndsWith(path, suf))

runtime_signal(path, content) ==
    Min(Bit(\E h \in RUNTIME_PATH_HINTS : Contains(path, h))
        + Bit(content.db) + Bit(content.role) + Bit(content.env), 2)

churn_weight(raw) == Min(raw, CHURN_CAP)

\* the weighted sum with the weight of imported_by negated
WeightedSumInverted(is_entry, runtime, imported_by, churn_w, tooling, tests, types) ==
    W_ENTRYPOINT * is_entry + W_RUNTIME * runtime - W_IMPORTED_BY * imported_by
    + W_CHURN * churn_w + W_TOOLING_PENALTY * tooling + W_TEST_PENALTY * tests
    + W_TYPES_PENALTY * types

\* `score = (W_ENTRYPOINT * is_entry + ... + W_TYPES_PENALTY * types)`
WeightedSum(is_entry, runtime, imported_by, churn_w, tooling, tests, types) ==
    W_ENTRYPOINT * is_entry + W_RUNTIME * runtime + W_IMPORTED_BY * imported_by
    + W_CHURN * churn_w + W_TOOLING_PENALTY * tooling + W_TEST_PENALTY * tests
    + W_TYPES_PENALTY * types

\* the body of the scoring loop for file p with the given content, import
\* counts and churn counter
ScoreRecordOf(p, root, content, items, counter) ==
    LET rel == RelStr(p, root)
        is_entry == detect_entrypoint(p, content)
        imported_by == CountOf(items, rel)
        recent_touches == TouchesOf(counter, rel)
        tooling == is_tooling_config(rel)
        tests == is_test_or_fixture(rel)
        types == is_types_only(rel)
        runtime == runtime_signal(rel, content)
        churn_w == churn_weight(recent_touches)
    IN  [ rel |-> rel,
          score |-> WeightedSum(is_entry, runtime, imported_by, churn_w, tooling,
                                tests, types),
          is_entrypoint |-> is_entry,
          runtime_signal |-> runtime,
          imported_by_count |-> imported_by,
          recent_commits_touching |-> recent_touches,
          tooling_config |-> tooling,
          is_test_or_fixture |-> tests,
          is_types_only |-> types,
          bytes |-> size[p] ]

\* the (rel, meta) pair score_files appends for file p
ScoreRecord(p, root) ==
    ScoreRecordOf(p, root, read_text_safely(p).cues, imported_by_count, churn)

\* the last of the items with the largest count
RelCentralLast(items) ==
    items[CHOOSE i \in 1..Len(items) :
            /\ \A j \in 1..Len(items) : items[j][2] <= items[i][2]
            /\ \A j \in (i + 1)..Len(items) : items[j][2] < items[i][2]][1]

\* max(imported_by_count.items(), key=lambda kv: kv[1])[0]
RelCentral(items) ==
    items[CHOOSE i \in 1..Len(items) :
            /\ \A j \in 1..Len(items) : items[j][2] <= items[i][2]
            /\ \A j \in 1..(i - 1) : items[j][2] < items[i][2]][1]

\* index of the record the fallback loop stops at
FirstWithRel(recs, rel) ==
    CHOOSE i \in 1..Len(recs) : recs[i].rel = rel /\ \A j \in 1..(i - 1) : recs[j].rel # rel

\* the fallback setting the flag and leaving the score
PromoteFlagOnly(r) == [r EXCEPT !.is_entrypoint = 1]

\* the record the fallback leaves in place of r
Promote(r) == [r EXCEPT !.is_entrypoint = 1, !.score = @ + W_ENTRYPOINT]

\* the fallback block of score_files
Fallback(recs, items) ==
    IF \E i \in 1..Len(recs) : recs[i].is_entrypoint = 1 THEN recs
    ELSE IF Len(items) = 0 THEN recs
    ELSE LET rel_central == RelCentral(items) IN
         IF \E i \in 1..Len(recs) : recs[i].rel = rel_central
         THEN [recs EXCEPT ![FirstWithRel(recs, rel_central)] = Promote(@)]
         ELSE recs

\* the sort key with the byte size not negated
SortKeyLargerFirst(r) == <<r.score, r.runtime_signal, r.imported_by_count, r.bytes>>

\* the sort key of score_files
SortKey(r) == <<r.score, r.runtime_signal, r.imported_by_count, -r.bytes>>

RECURSIVE TupleLess(_, _)
\* a < b for tuples of integers of equal length
TupleLess(a, b) ==
    IF Len(a) = 0 THEN FALSE
    ELSE IF a[1] # b[1] THEN a[1] < b[1]
    ELSE TupleLess(Tail(a), Tail(b))

RECURSIVE InsertDesc(_, _)
\* r put into the descending list recs, after the records not below it
InsertDesc(recs, r) ==
    IF Len(recs) = 0 THEN <<r>>
    ELSE IF TupleLess(SortKey(recs[1]), SortKey(r)) THEN <<r>> \o recs
    ELSE <<recs[1]>> \o InsertDesc(Tail(recs), r)

RECURSIVE SortInto(_, _)
SortInto(acc, recs) ==
    IF Len(recs) = 0 THEN acc
    ELSE SortInto(InsertDesc(acc, recs[1]), Tail(recs))

\* scored.sort(key=..., reverse=True): stable, descending
SortDesc(recs) == SortInto(<<>>, recs)

\* s[:n + 1]
SliceOneMore(s, n) ==
    IF n + 1 >= 0 THEN SubSeq(s, 1, Min(n + 1, Len(s)))
    ELSE SubSeq(s, 1, Max(Len(s) + n + 1, 0))

\* s[:n]
Slice(s, n) ==
    IF n >= 0 THEN SubSeq(s, 1, Min(n, Len(s)))
    ELSE SubSeq(s, 1, Max(Len(s) + n, 0))

-----------------------------------------------------------------------------
(* The repositories the model is run on *)

Root == << Tok("repo") >>

InRepo(rel) == Root \o rel

Stmt(kind, spec) == [kind |-> kind, spec |-> spec]

\* "./<rest>"
Here(rest) == <<DOT, SLASH>> \o rest

\* "../<rest>"
Up(rest) == <<DOT, DOT, SLASH>> \o rest

a_js == InRepo(<< File("a", "js") >>)

b_js == InRepo(<< File("b", "js") >>)

b_ts == InRepo(<< File("b", "ts") >>)

c_js == InRepo(<< File("c", "js") >>)

sub_index_js == InRepo(<< Tok("sub"), File("index", "js") >>)

a_py == InRepo(<< File("a", "py") >>)

b_py == InRepo(<< File("b", "py") >>)

c_py == InRepo(<< File("c", "py") >>)

pkg_m_py == InRepo(<< Tok("pkg"), File("m", "py") >>)

data_json == InRepo(<< File("data", "json") >>)

dep_js == InRepo(<< Tok("node_modules"), File("dep", "js") >>)

pkg_d == InRepo(<< <<"pkg", DOT, "d">> >>)

out_js == << File("out", "js") >>

out_b_py == << File("b", "py") >>

main_py == InRepo(<< File("main", "py") >>)

api_h_js == InRepo(<< Tok("api"), File("h", "js") >>)

lib_tests_t_js == InRepo(<< Tok("lib"), Tok("tests"), File("t", "js") >>)

tests_helper_py == InRepo(<< Tok("tests"), File("helper", "py") >>)

jest_config_js == InRepo(<< <<"jest", DOT, "config", DOT, "js">> >>)

types_d_ts == InRepo(<< <<"types", DOT, "d", DOT, "ts">> >>)

big_js == InRepo(<< File("big", "js") >>)

\* source files a repository of the graph family may hold: one language each
JsCandidates == { a_js, b_js, b_ts, c_js, sub_index_js }

PyCandidates == { a_py, b_py, c_py, pkg_m_py }

\* always there: a data file, a vendored package, and two files outside the root
GraphFixedFiles == { data_json, dep_js, out_js, out_b_py }

\* always there: a directory whose name has a dot
GraphFixedDirs == { pkg_d }

\* source files a repository of the scoring family may hold
ScoreCandidates ==
    { main_py, b_js, b_ts, api_h_js, lib_tests_t_js, tests_helper_py, jest_config_js,
      types_d_ts }

\* always there: a file above the size limit and a vendored package
ScoreFixedFiles == { big_js, dep_js }

\* the import statements a file may contain
Alphabet(f) ==
    IF f = a_js THEN
        { Stmt("import_from", Here(Tok("b"))),
          Stmt("import_from", Here(File("b", "js"))),
          Stmt("import_from", Up(Tok("out"))),
          Stmt("import", Here(<<"pkg", DOT, "d">>)),
          Stmt("require", Here(Tok("data"))),
          Stmt("export_from", Here(Tok("sub"))),
          Stmt("import_from", Here(<<"node_modules", SLASH, "dep">>)),
          Stmt("import_from", Tok("b")) }
    ELSE IF f = c_js THEN
        { Stmt("import_from", Here(Tok("b"))),
          Stmt("dynamic", Here(Tok("a"))) }
    ELSE IF f = api_h_js THEN
        { Stmt("require", Up(Tok("b"))) }
    ELSE IF f = a_py THEN
        { Stmt("py_from", <<DOT, "b">>),
          Stmt("py_from", Tok("b")),
          Stmt("py_import", Tok("b")),
          Stmt("py_from", <<DOT, "pkg", DOT, "m">>) }
    ELSE IF f = pkg_m_py THEN
        { Stmt("py_from", <<DOT, "b">>),
          Stmt("py_from", <<DOT, DOT, "b">>),
          Stmt("py_from", <<DOT, "m">>) }
    ELSE IF f = main_py THEN
        { Stmt("py_from", Tok("b")) }
    ELSE {}

\* sequences over S of length at most n
SeqsUpTo(S, n) == UNION { [1..m -> S] : m \in 0..n }

RECURSIVE Texts(_, _)
\* the contents of the files of F that hold at most n import statements in all
Texts(F, n) ==
    IF F = {} THEN { [f \in {} |-> <<>>] }
    ELSE LET f == CHOOSE g \in F : TRUE IN
         UNION { { (f :> c) @@ t : t \in Texts(F \ {f}, n - Len(c)) } :
                 c \in SeqsUpTo(Alphabet(f), n) }

\* every directory on the way to a file of F, the filesystem root included
DirsOf(F) == UNION { { SubSeq(p, 1, i) : i \in 0..(Len(p) - 1) } : p \in F }

AllMarks == [entry |-> FALSE, db |-> TRUE, role |-> TRUE, env |-> TRUE]

\* what may set one file of the scoring family apart: the cues its content
\* shows and the number of times `git log` names it
Profiles ==
    { [cues |-> [NoMarks EXCEPT !.entry = TRUE], touches |-> 0],
      [cues |-> [NoMarks EXCEPT !.db = TRUE], touches |-> 1],
      [cues |-> AllMarks, touches |-> MaxTouches],
      [cues |-> NoMarks, touches |-> 1],
      [cues |-> NoMarks, touches |-> MaxTouches] }

SizeOf(f) ==
    IF f = big_js THEN MAX_FILE_BYTES + 1
    ELSE IF f \in {b_js, api_h_js, b_py} THEN 800
    ELSE 1200

NoHistory == [p \in {} |-> 0]

\* the path counts of `git log --name-only` when it names f n times
GitLog(f, n) == IF n = 0 THEN NoHistory ELSE (RelStr(f, Root) :> n)

\* the values of N the caller may pass
TopNs == ((-1)..MaxFiles) \cup {DefaultTopN}

\* the fixed files are enumerated last, in a fixed order
FixedListing(fixed) == CHOOSE order \in Orderings(fixed) : TRUE

\* the filesystems and file contents of the graph family
InitGraph ==
    /\ \E F \in (SUBSET JsCandidates) \cup (SUBSET PyCandidates) :
         /\ Cardinality(F) <= MaxFiles
         /\ files = F \cup GraphFixedFiles
         /\ \E order \in Orderings(F) : listing = order \o FixedListing(GraphFixedFiles)
    /\ dirs = DirsOf(files) \cup GraphFixedDirs
    /\ text \in Texts(files, MaxImports)
    /\ nul \in SUBSET (files \cap {c_js})
    /\ marks = [f \in files |-> NoMarks]
    /\ size = [f \in files |-> SizeOf(f)]
    /\ gitlog = NoHistory
    /\ git_rc = 0
    /\ unreadable = {}

\* return codes of `git log`: success, and "not a git repository"
GitReturnCodes == {0, 128}

\* files of the scoring family that may be unreadable
UnreadableCandidates == { api_h_js, main_py }

\* the filesystems, file contents and revision histories of the scoring family
InitScore ==
    /\ \E F \in SUBSET ScoreCandidates :
         /\ Cardinality(F) <= MaxFiles
         /\ files = F \cup ScoreFixedFiles
         /\ \E order \in Orderings(F) : listing = order \o FixedListing(ScoreFixedFiles)
         /\ \/ /\ marks = [f \in files |-> NoMarks]
               /\ gitlog = NoHistory
               /\ git_rc \in GitReturnCodes
            \/ \E x \in F, pr \in Profiles :
                 /\ marks = [f \in files |-> IF f = x THEN pr.cues ELSE NoMarks]
                 /\ gitlog = GitLog(x, pr.touches)
                 /\ git_rc = 0
         /\ unreadable \in {{}} \cup { {u} : u \in F \cap UnreadableCandidates }
    /\ dirs = DirsOf(files)
    /\ text \in Texts(files, MaxImports)
    /\ nul = {}
    /\ size = [f \in files |-> SizeOf(f)]

InitRun ==
    /\ src_files = <<>>
    /\ node_ids = <<>>
    /\ edges = <<>>
    /\ k = 0
    /\ spc = "start"
    /\ sfiles = <<>>
    /\ imported_by_count = <<>>
    /\ churn = NoHistory
    /\ scored = <<>>
    /\ result = <<>>
    /\ top_n = DefaultTopN

\* no pure function is called
NoCall == [fn |-> "none"]

\* a graph: its nodes in insertion order and its undirected edges
NoGraph == [nodes |-> <<>>, edges |-> {}]

\* generate_graph_position.main does not run
InitNoLayout ==
    /\ data = [nodes |-> <<>>, edges |-> <<>>]
    /\ lpc = "off"
    /\ G = NoGraph
    /\ comms = <<>>
    /\ sims = <<>>
    /\ layout = <<>>
    /\ written = None

InitNoCall ==
    /\ call = NoCall
    /\ ret = None
    /\ InitNoLayout

\* build_dependency_graph and then score_files on a repository of the graph family
Init == InitGraph /\ InitRun /\ InitNoCall /\ pc = "start"

\* score_files alone on a repository of the scoring family
InitScoreOnly == InitScore /\ InitRun /\ InitNoCall /\ pc = "off"

-----------------------------------------------------------------------------
(* scanner.build_dependency_graph *)

\* the os.walk loop that collects src_files
Walk ==
    /\ pc = "start"
    /\ src_files' = SelectSeqOf(listing, { p \in files : IsScannerSource(p, Root) })
    /\ pc' = "add_nodes"
    /\ UNCHANGED <<restvars, fsvars, node_ids, edges, k, scorevars>>

\* `for f in src_files: _add_node(f.relative_to(root))`
AddSourceNodes ==
    /\ pc = "add_nodes"
    /\ node_ids' = AddNodes(node_ids, [i \in 1..Len(src_files) |->
                                         RelativeTo(src_files[i], Root)])
    /\ k' = 1
    /\ pc' = "extract"
    /\ UNCHANGED <<restvars, fsvars, src_files, edges, scorevars>>

RECURSIVE Distinct(_)
\* s without the repetitions of its elements
Distinct(s) ==
    IF Len(s) = 0 THEN <<>>
    ELSE IF \E i \in 1..(Len(s) - 1) : s[i] = Last(s) THEN Distinct(Front(s))
    ELSE Append(Distinct(Front(s)), Last(s))

\* the edges of one source file with each target kept once
EdgesOfDistinct(f, tgts) ==
    [i \in 1..Len(Distinct(tgts)) |->
        [source |-> AsPosix(RelativeTo(f, Root)), target |-> AsPosix(Distinct(tgts)[i])]]

\* the edges one source file contributes
EdgesOf(f, tgts) ==
    [i \in 1..Len(tgts) |->
        [source |-> AsPosix(RelativeTo(f, Root)), target |-> AsPosix(tgts[i])]]

\* one iteration of `for f in src_files` of the edge extraction
ExtractFile ==
    /\ pc = "extract"
    /\ k <= Len(src_files)
    /\ LET f == src_files[k]
           tgts == extract_imports_for_file(f, Root)
       IN  /\ node_ids' = AddNodes(node_ids, tgts)
           /\ edges' = edges \o EdgesOf(f, tgts)
    /\ k' = k + 1
    /\ UNCHANGED <<restvars, fsvars, pc, src_files, scorevars>>

\* `return {"nodes": nodes, "edges": edges}`
ReturnGraph ==
    /\ pc = "extract"
    /\ k > Len(src_files)
    /\ pc' = "graph"
    /\ k' = 0
    /\ UNCHANGED <<restvars, fsvars, src_files, node_ids, edges, scorevars>>

-----------------------------------------------------------------------------
(* score_repo_files.score_files *)

\* `files = iter_source_files(...)` and `if not files: return []`
IterSourceFiles ==
    /\ spc = "start"
    /\ pc \in {"graph", "off"}
    /\ sfiles' = SelectSeqOf(listing, { p \in files : IsScorerSource(p, Root) })
    /\ spc' = IF Len(sfiles') = 0 THEN "done" ELSE "graph"
    /\ UNCHANGED <<restvars, fsvars, scanvars, k, imported_by_count, churn, scored, result,
                   top_n>>

\* `imported_by_count = build_import_graph(files, repo_dir)`
BuildImportGraph ==
    /\ spc = "graph"
    /\ imported_by_count' = build_import_graph(sfiles, Root)
    /\ spc' = "churn"
    /\ UNCHANGED <<restvars, fsvars, scanvars, k, sfiles, churn, scored, result, top_n>>

\* `churn = compute_churn(repo_dir, max_commits)`: run() raises RuntimeError on
\* a non-zero return code, and neither compute_churn nor score_files catches it
ComputeChurn ==
    /\ spc = "churn"
    /\ IF run_raises(git_rc)
       THEN /\ spc' = "raised"
            /\ UNCHANGED <<churn, k>>
       ELSE /\ churn' = compute_churn(gitlog)
            /\ k' = 1
            /\ spc' = "score"
    /\ UNCHANGED <<restvars, fsvars, scanvars, sfiles, imported_by_count, scored, result,
                   top_n>>

\* one iteration of `for p in files` of the scoring loop
ScoreFile ==
    /\ spc = "score"
    /\ k <= Len(sfiles)
    /\ scored' = Append(scored, ScoreRecord(sfiles[k], Root))
    /\ k' = k + 1
    /\ UNCHANGED <<restvars, fsvars, scanvars, spc, sfiles, imported_by_count, churn, result,
                   top_n>>

\* the fallback block after the scoring loop
EntrypointFallback ==
    /\ spc = "score"
    /\ k > Len(sfiles)
    /\ scored' = Fallback(scored, imported_by_count)
    /\ k' = 0
    /\ spc' = "sort"
    /\ UNCHANGED <<restvars, fsvars, scanvars, sfiles, imported_by_count, churn, result,
                   top_n>>

\* `scored.sort(...)` and `return scored[:top_n]`; top_n is read here only,
\* so the caller's value is drawn here
SortAndReturn ==
    /\ spc = "sort"
    /\ \E n \in TopNs :
         /\ top_n' = n
         /\ scored' = SortDesc(scored)
         /\ result' = Slice(scored', n)
    /\ spc' = "done"
    /\ UNCHANGED <<restvars, fsvars, scanvars, k, sfiles, imported_by_count, churn>>

-----------------------------------------------------------------------------

NextScan == Walk \/ AddSourceNodes \/ ExtractFile \/ ReturnGraph

NextScore ==
    \/ IterSourceFiles
    \/ BuildImportGraph
    \/ ComputeChurn
    \/ ScoreFile
    \/ EntrypointFallback
    \/ SortAndReturn

Next == NextScan \/ NextScore

Spec == Init /\ [][Next]_vars

SpecScore == InitScoreOnly /\ [][NextScore]_vars

-----------------------------------------------------------------------------
(* The scoring formula as a function of the components *)

\* the component assignments a record may store
Components ==
    [ is_entrypoint : 0..1, runtime_signal : 0..2,
      imported_by_count : 0..MaxImportedBy,
      recent_commits_touching : 0..MaxTouches,
      tooling_config : 0..1, is_test_or_fixture : 0..1, is_types_only : 0..1 ]

\* the score the scoring loop computes from the components c
ScoreOfComponents(c) ==
    WeightedSum(c.is_entrypoint, c.runtime_signal, c.imported_by_count,
                churn_weight(c.recent_commits_touching), c.tooling_config,
                c.is_test_or_fixture, c.is_types_only)

\* no repository is read and neither walk runs
InitNoRepository ==
    /\ files = {}
    /\ dirs = {}
    /\ text = <<>>
    /\ marks = <<>>
    /\ nul = {}
    /\ size = <<>>
    /\ gitlog = NoHistory
    /\ git_rc = 0
    /\ unreadable = {}
    /\ listing = <<>>
    /\ pc = "off"

\* two component assignments that differ in imported_by_count at most
InitScorePair ==
    \E a \in Components, n \in 0..MaxImportedBy :
        call = [fn |-> "score", a |-> a, b |-> [a EXCEPT !.imported_by_count = n]]

\* the scoring formula applied to both assignments
ApplyScore ==
    /\ call.fn = "score"
    /\ ret = None
    /\ ret' = [ok |-> TRUE, a |-> ScoreOfComponents(call.a),
                            b |-> ScoreOfComponents(call.b)]
    /\ UNCHANGED <<fsvars, scanvars, scorevars, layoutvars, k, call>>

-----------------------------------------------------------------------------
(* generate_graph_position.py: numbers                                      *)
(* A coordinate is a fixed-point integer, Unit steps to 1.0; a quotient is  *)
(* rounded toward zero.  Horizontal and vertical distances are exact.       *)

Unit == 100

Abs(a) == IF a < 0 THEN 0 - a ELSE a

Sgn(a) == IF a < 0 THEN 0 - 1 ELSE IF a > 0 THEN 1 ELSE 0

\* a / b rounded toward zero
TruncDiv(a, b) == Sgn(a) * Sgn(b) * (Abs(a) \div Abs(b))

RECURSIVE SqrtBetween(_, _, _)
\* the largest r in lo..hi with r * r <= a
SqrtBetween(a, lo, hi) ==
    IF lo >= hi THEN lo
    ELSE LET mid == (lo + hi + 1) \div 2 IN
         IF mid * mid <= a THEN SqrtBetween(a, mid, hi)
         ELSE SqrtBetween(a, lo, mid - 1)

\* the integer part of the square root of a
ISqrt(a) == SqrtBetween(a, 0, Min(a, 46340))

\* math.hypot(dx, dy)
Hypot(dx, dy) == ISqrt(dx * dx + dy * dy)

\* math.hypot(dx, dy) where it is below cap, and cap or more where it is not
HypotBelow(dx, dy, cap) ==
    IF Abs(dx) >= cap \/ Abs(dy) >= cap THEN cap ELSE Hypot(dx, dy)

-----------------------------------------------------------------------------
(* generate_graph_position.de_overlap                                       *)
(* pos is the dict of positions in insertion order: a sequence of records   *)
(* [node |-> id, x |-> x, y |-> y].                                        *)

\* `ox, oy = dx * push, dy * push` with push = 0.5 * (min_dist - dist) / dist;
\* for dx = dy = 0 the distance is taken as 1e-6 and the offsets are 0
Offset(d, dist, min_dist) ==
    IF dist = 0 THEN 0 ELSE TruncDiv(d * (min_dist - dist), 2 * dist)

\* the pair step with node j pushed toward node i
PairStepInward(pos, i, j, xi, yi, min_dist) ==
    LET dx == pos[j].x - xi
        dy == pos[j].y - yi
        dist == HypotBelow(dx, dy, min_dist)
        ox == Offset(dx, dist, min_dist)
        oy == Offset(dy, dist, min_dist)
    IN  IF dist < min_dist
        THEN [pos EXCEPT ![i] = [node |-> pos[i].node, x |-> xi - ox, y |-> yi - oy],
                         ![j] = [node |-> pos[j].node, x |-> pos[j].x - ox, y |-> pos[j].y - oy]]
        ELSE pos

\* the body of `for j in range(i + 1, n)`: xi, yi were read before the loop
PairStep(pos, i, j, xi, yi, min_dist) ==
    LET dx == pos[j].x - xi
        dy == pos[j].y - yi
        dist == HypotBelow(dx, dy, min_dist)
        ox == Offset(dx, dist, min_dist)
        oy == Offset(dy, dist, min_dist)
    IN  IF dist < min_dist
        THEN [pos EXCEPT ![i] = [node |-> pos[i].node, x |-> xi - ox, y |-> yi - oy],
                         ![j] = [node |-> pos[j].node, x |-> pos[j].x + ox, y |-> pos[j].y + oy]]
        ELSE pos

RECURSIVE InnerLoop(_, _, _, _, _, _)
\* `for j in range(i + 1, n)` from j on
InnerLoop(pos, i, j, xi, yi, min_dist) ==
    IF j > Len(pos) THEN pos
    ELSE InnerLoop(PairStep(pos, i, j, xi, yi, min_dist), i, j + 1, xi, yi, min_dist)

RECURSIVE OnePassFrom(_, _, _)
\* `for i in range(n)` from i on
OnePassFrom(pos, i, min_dist) ==
    IF i > Len(pos) THEN pos
    ELSE OnePassFrom(InnerLoop(pos, i, i + 1, pos[i].x, pos[i].y, min_dist),
                     i + 1, min_dist)

RECURSIVE de_overlap(_, _, _)
de_overlap(pos, min_dist, passes) ==
    IF passes <= 0 THEN pos
    ELSE de_overlap(OnePassFrom(pos, 1, min_dist), min_dist, passes - 1)

\* the points a node of a de_overlap call may lie on
Lattice == { <<x * Unit, y * Unit>> : x \in {0, 8, 10}, y \in {0, 6} }

\* the layouts of nodes 1..n on the lattice
LayoutsOn(n) ==
    { [i \in 1..n |-> [node |-> i, x |-> f[i][1], y |-> f[i][2]]] : f \in [1..n -> Lattice] }

\* a call de_overlap(pos, min_dist, passes)
InitDeOverlapCall ==
    \E n \in 2..MaxLayoutNodes : \E l \in LayoutsOn(n), passes \in {1, 3} :
        call = [fn |-> "de_overlap", pos |-> l, min_dist |-> 10 * Unit,
                passes |-> passes]

ApplyDeOverlap ==
    /\ call.fn = "de_overlap"
    /\ ret = None
    /\ ret' = [ok |-> TRUE, pos |-> de_overlap(call.pos, call.min_dist, call.passes)]
    /\ UNCHANGED <<fsvars, scanvars, scorevars, layoutvars, k, call>>

-----------------------------------------------------------------------------
(* generate_graph_position.py: the parameters of the layout                 *)
(* A dimensionless factor is a fixed-point integer, Fine steps to 1.0.      *)

Fine == 10000

\* `if n >= 60`
COMMUNITY_THRESHOLD == 60

\* math.log10(n) for n in 1..200, in steps of 1/Fine, rounded down
Log10Table == <<
        0,  3010,  4771,  6020,  6989,  7781,  8450,  9030,  9542, 10000,
    10413, 10791, 11139, 11461, 11760, 12041, 12304, 12552, 12787, 13010,
    13222, 13424, 13617, 13802, 13979, 14149, 14313, 14471, 14623, 14771,
    14913, 15051, 15185, 15314, 15440, 15563, 15682, 15797, 15910, 16020,
    16127, 16232, 16334, 16434, 16532, 16627, 16720, 16812, 16901, 16989,
    17075, 17160, 17242, 17323, 17403, 17481, 17558, 17634, 17708, 17781,
    17853, 17923, 17993, 18061, 18129, 18195, 18260, 18325, 18388, 18450,
    18512, 18573, 18633, 18692, 18750, 18808, 18864, 18920, 18976, 19030,
    19084, 19138, 19190, 19242, 19294, 19344, 19395, 19444, 19493, 19542,
    19590, 19637, 19684, 19731, 19777, 19822, 19867, 19912, 19956, 20000,
    20043, 20086, 20128, 20170, 20211, 20253, 20293, 20334, 20374, 20413,
    20453, 20492, 20530, 20569, 20606, 20644, 20681, 20718, 20755, 20791,
    20827, 20863, 20899, 20934, 20969, 21003, 21038, 21072, 21105, 21139,
    21172, 21205, 21238, 21271, 21303, 21335, 21367, 21398, 21430, 21461,
    21492, 21522, 21553, 21583, 21613, 21643, 21673, 21702, 21731, 21760,
    21789, 21818, 21846, 21875, 21903, 21931, 21958, 21986, 22013, 22041,
    22068, 22095, 22121, 22148, 22174, 22201, 22227, 22253, 22278, 22304,
    22329, 22355, 22380, 22405, 22430, 22455, 22479, 22504, 22528, 22552,
    22576, 22600, 22624, 22648, 22671, 22695, 22718, 22741, 22764, 22787,
    22810, 22833, 22855, 22878, 22900, 22922, 22944, 22966, 22988, 23010 >>

\* `max(0.0, log10(n))`
Log10Fine(n) == Max(0, Log10Table[n])

\* `n ** 0.5`, in steps of 1/Fine
SqrtFine(n) == ISqrt(n * 1000000) * 10

\* adaptive_params(n): k and spread in steps of 1/Fine, min_d in steps of 1/Unit
adaptive_params(n0) ==
    LET n == Max(1, n0)
        lg == Log10Fine(n)
    IN  [k      |-> (((18000 * Fine) \div SqrtFine(n)) * (Fine + (1500 * lg) \div Fine)) \div Fine,
         spread |-> 16000 + (4500 * lg) \div Fine,
         min_d  |-> 80 * Unit + (22 * Unit * lg) \div Fine,
         iters  |-> Min(800, 220 + 4 * n)]

\* `int(base * s)` for s = sqrt(n / 50) kept at 1.0 or above, with no cap
ScaledUp(base, n) == Max(base, ISqrt(((base * base) \div 50) * n))

\* adaptive_viewport without the cap `min(2.2, ...)` of the scale
adaptive_viewport_uncapped(n) ==
    [WIDTH |-> ScaledUp(1800, n), HEIGHT |-> ScaledUp(950, n)]

\* adaptive_viewport(n): WIDTH and HEIGHT, whole numbers; int(base * s) is
\* the integer part of sqrt(base * base * n / 50), kept between base and
\* int(base * 2.2)
adaptive_viewport(n) ==
    [WIDTH  |-> Min((1800 * 22) \div 10, ScaledUp(1800, n)),
     HEIGHT |-> Min((950 * 22) \div 10, ScaledUp(950, n))]

\* map_range with the midpoint branch for a == b left out
map_range_linear(v, a, b, A, B) ==
    IF a = b THEN A
    ELSE LET t == (v - a) * ((B - A) \div Unit)
         IN  A + (t \div (b - a)) * Unit + ((t % (b - a)) * Unit) \div (b - a)

\* map_range(v, a, b, A, B), for a <= v <= b and B - A a whole number
map_range(v, a, b, A, B) ==
    IF a = b THEN TruncDiv(A + B, 2)
    ELSE LET t == (v - a) * ((B - A) \div Unit)
         IN  A + (t \div (b - a)) * Unit + ((t % (b - a)) * Unit) \div (b - a)

-----------------------------------------------------------------------------
(* Calls of the pure functions                                              *)

\* adaptive_params(n1) and adaptive_params(n2) for n1 <= n2
InitParamsCall ==
    \E n1 \in 0..MaxNodeCount : \E n2 \in n1..MaxNodeCount :
        call = [fn |-> "adaptive_params", n1 |-> n1, n2 |-> n2]

ApplyParams ==
    /\ call.fn = "adaptive_params"
    /\ ret = None
    /\ ret' = [ok |-> TRUE, a |-> adaptive_params(call.n1),
                            b |-> adaptive_params(call.n2)]
    /\ UNCHANGED <<fsvars, scanvars, scorevars, layoutvars, k, call>>

InitPure ==
    /\ InitNoRepository /\ InitRun /\ InitNoLayout /\ ret = None
    /\ (InitScorePair \/ InitDeOverlapCall \/ InitParamsCall)

NextPure == ApplyScore \/ ApplyDeOverlap \/ ApplyParams

SpecPure == InitPure /\ [][NextPure]_vars

-----------------------------------------------------------------------------
(* generate_graph_position.main: the input                                  *)
(* A node id is a number; a node record is [id, label] and an edge record   *)
(* is [source, target].                                                     *)

\* the label of a node record without a "label" key
NoLabel == 0

\* an id that no node of the input has
UnknownId == MaxLayoutNodes + 1

NodeRec(i) == [id |-> i, label |-> IF i % 2 = 0 THEN NoLabel ELSE 100 + i]

EdgeRec(s, t) == [source |-> s, target |-> t]

\* the node lists of the small inputs: the first n ids, and a repeated id
SmallNodeLists ==
    { [i \in 1..n |-> NodeRec(i)] : n \in 0..MaxLayoutNodes }
        \cup { << NodeRec(1), NodeRec(1) >> }

\* the edge records of the small inputs, some with an id that is no node
SmallEdgeRecs ==
    { EdgeRec(1, 2), EdgeRec(2, 3), EdgeRec(3, 1), EdgeRec(1, 1),
      EdgeRec(1, UnknownId), EdgeRec(UnknownId, 2) }

SmallInputs ==
    { [nodes |-> ns, edges |-> es] :
        ns \in SmallNodeLists, es \in SeqsUpTo(SmallEdgeRecs, MaxLayoutEdges) }

\* the edges of a clique on the ids lo..hi, as a list
CliqueEdges(lo, hi) ==
    Flatten([i \in 1..(hi - lo) |->
                [j \in 1..(hi - lo + 1 - i) |-> EdgeRec(lo + i - 1, lo + i - 1 + j)]])

\* two disconnected clusters of ClusterSize nodes each
TwoClusters ==
    [nodes |-> [i \in 1..(2 * ClusterSize) |-> NodeRec(i)],
     edges |-> CliqueEdges(1, ClusterSize)
                   \o CliqueEdges(ClusterSize + 1, 2 * ClusterSize)]

\* one cluster with as many nodes as the community threshold
OneCluster ==
    [nodes |-> [i \in 1..COMMUNITY_THRESHOLD |-> NodeRec(i)],
     edges |-> CliqueEdges(1, COMMUNITY_THRESHOLD)]

LargeInputs == { TwoClusters, OneCluster }

\* `data = read_json(IN)`
InitLayout ==
    /\ data \in SmallInputs \cup LargeInputs
    /\ lpc = "start"
    /\ G = NoGraph
    /\ comms = <<>>
    /\ sims = <<>>
    /\ layout = <<>>
    /\ written = None

-----------------------------------------------------------------------------
(* generate_graph_position.main: the graph                                  *)

\* `G.add_nodes_from(node_ids)`: each id once, in the order of its first mention
add_nodes_from(ids) ==
    LET firsts == { i \in 1..Len(ids) : \A j \in 1..(i - 1) : ids[j] # ids[i] }
    IN  [r \in 1..Cardinality(firsts) |->
            ids[CHOOSE i \in firsts : Cardinality({ j \in firsts : j < i }) = r - 1]]

\* the loop over data["edges"]: `if s in G and t in G: G.add_edge(s, t)`
add_edges(nodes, es) ==
    { {e.source, e.target} :
        e \in { d \in Range(es) : d.source \in Range(nodes) /\ d.target \in Range(nodes) } }

\* G after lines 124-130
BuiltGraph(d) ==
    LET nodes == add_nodes_from([i \in 1..Len(d.nodes) |-> d.nodes[i].id])
    IN  [nodes |-> nodes, edges |-> add_edges(nodes, d.edges)]

\* `n = max(1, G.number_of_nodes())`
NodeCount(g) == Max(1, Len(g.nodes))

-----------------------------------------------------------------------------
(* networkx.spring_layout                                                   *)
(* The force simulation is a library call: its result is any placement of   *)
(* the nodes in the square [-1, 1] x [-1, 1], in the order of the nodes.    *)
(* A few nodes may lie on any of SpringPoints; many nodes take one of the   *)
(* Shapes.                                                                  *)

SpringPoints ==
    { <<0 - Unit, 0 - Unit>>, <<0, 0>>, <<Unit, Unit \div 2>>, <<Unit, Unit>> }

Shapes == { "diagonal", "column", "corner" }

\* where node i of m lies in a shape
ShapePoint(shape, i, m) ==
    LET along == (2 * Unit * (i - 1)) \div (m - 1) - Unit
    IN  CASE shape = "diagonal" -> <<along, along>>
          [] shape = "column"   -> <<0, along>>
          [] shape = "corner"   -> IF i = 1 THEN <<Unit, Unit>> ELSE <<0 - Unit, 0 - Unit>>

\* the results spring_layout may return for the nodes of a graph
spring_layout(nodes) ==
    IF Len(nodes) <= MaxLayoutNodes
    THEN { [i \in 1..Len(nodes) |-> [node |-> nodes[i], x |-> f[i][1], y |-> f[i][2]]] :
             f \in [1..Len(nodes) -> SpringPoints] }
    ELSE { [i \in 1..Len(nodes) |->
              [node |-> nodes[i], x |-> ShapePoint(sh, i, Len(nodes))[1],
                                   y |-> ShapePoint(sh, i, Len(nodes))[2]]] :
             sh \in Shapes }

\* `seed=42` of every spring_layout call
SEED == 42

\* one spring_layout call, as main and pack_communities trace it
Simulation(nodes, k_, iterations) ==
    [nodes |-> nodes, k |-> k_, iterations |-> iterations, seed |-> SEED]

-----------------------------------------------------------------------------
(* networkx greedy_modularity_communities                                   *)
(* The communities are a library result: agglomeration joins only groups    *)
(* that an edge connects, so every community lies inside one connected      *)
(* component.  A component is returned whole or cut into up to MaxParts     *)
(* groups of consecutive ids; the list is ordered by size, largest first.   *)

RECURSIVE Grow(_, _)
\* the nodes reachable from the set S
Grow(g, S) ==
    LET N == S \cup UNION { e \in g.edges : e \cap S # {} }
    IN  IF N = S THEN S ELSE Grow(g, N)

RECURSIVE ComponentsAmong(_, _)
\* the connected components of g among the nodes rest
ComponentsAmong(g, rest) ==
    IF rest = {} THEN {}
    ELSE LET c == Grow(g, {CHOOSE v \in rest : \A w \in rest : v <= w})
         IN  {c} \cup ComponentsAmong(g, rest \ c)

connected_components(g) == ComponentsAmong(g, Range(g.nodes))

\* the ids of S below v
Rank(S, v) == Cardinality({ w \in S : w < v })

\* part j of m of the set S cut into groups of consecutive ids
Part(S, j, m) ==
    { v \in S : /\ Rank(S, v) >= ((j - 1) * Cardinality(S)) \div m
                /\ Rank(S, v) < (j * Cardinality(S)) \div m }

\* S cut into m groups
Parts(S, m) == { Part(S, j, m) : j \in 1..m } \ {{}}

RECURSIVE BySize(_)
\* `sorted(communities, key=len, reverse=True)`, equal sizes by lowest id
BySize(cs) ==
    IF cs = {} THEN <<>>
    ELSE LET MinOf(c) == CHOOSE v \in c : \A w \in c : v <= w
             first == CHOOSE c \in cs : \A d \in cs :
                          \/ Cardinality(c) > Cardinality(d)
                          \/ Cardinality(c) = Cardinality(d) /\ MinOf(c) <= MinOf(d)
         IN  <<first>> \o BySize(cs \ {first})

\* the lists greedy_modularity_communities may return for g
greedy_modularity_communities(g) ==
    LET comps == connected_components(g)
    IN  { BySize(UNION { Parts(c, cut[c]) : c \in comps }) :
            cut \in [comps -> 1..MaxParts] }

-----------------------------------------------------------------------------
(* generate_graph_position.normalize_box and pack_communities               *)

\* min(xs) and max(xs), with `or [0]` for no positions
MinOver(S) == IF S = {} THEN 0 ELSE CHOOSE v \in S : \A w \in S : v <= w

MaxOver(S) == IF S = {} THEN 0 ELSE CHOOSE v \in S : \A w \in S : v >= w

Xs(pos) == { pos[i].x : i \in 1..Len(pos) }

Ys(pos) == { pos[i].y : i \in 1..Len(pos) }

\* `(x - minx)/w - 0.5` with w = max(1e-6, maxx - minx), in steps of 1/Fine
Normalized(v, lo, hi) ==
    IF hi = lo THEN 0 - Fine \div 2
    ELSE TruncDiv((v - lo) * Fine, hi - lo) - Fine \div 2

normalize_box(subpos) ==
    [i \in 1..Len(subpos) |->
        [node |-> subpos[i].node,
         x |-> Normalized(subpos[i].x, MinOver(Xs(subpos)), MaxOver(Xs(subpos))),
         y |-> Normalized(subpos[i].y, MinOver(Ys(subpos)), MaxOver(Ys(subpos)))]]

RECURSIVE Ascending(_)
\* the nodes of a community in the order the subgraph enumerates them
Ascending(S) ==
    IF S = {} THEN <<>>
    ELSE LET v == CHOOSE u \in S : \A w \in S : u <= w
         IN  <<v>> \o Ascending(S \ {v})

\* cos and sin of idx * 2 * pi / K for idx = 0..K-1, in steps of 1/Fine
CircleTable ==
    << << <<10000, 0>> >>,
       << <<10000, 0>>, <<0 - 10000, 0>> >>,
       << <<10000, 0>>, <<0 - 5000, 8660>>, <<0 - 5000, 0 - 8660>> >>,
       << <<10000, 0>>, <<0, 10000>>, <<0 - 10000, 0>>, <<0, 0 - 10000>> >>,
       << <<10000, 0>>, <<3090, 9510>>, <<0 - 8090, 5877>>, <<0 - 8090, 0 - 5877>>,
          <<3090, 0 - 9510>> >>,
       << <<10000, 0>>, <<5000, 8660>>, <<0 - 5000, 8660>>, <<0 - 10000, 0>>,
          <<0 - 5000, 0 - 8660>>, <<5000, 0 - 8660>> >> >>

\* the radius R of the circle with every centre at the origin
CircleRadiusNone(total) == 0

\* `R = 8.0 + 0.8 * (sum(sizes) ** 0.5)`
CircleRadius(total) == 8 * Unit + (80 * SqrtFine(total)) \div Fine

\* `scale = 6.0 + 0.35 * (H.number_of_nodes() ** 0.5)`
BoxScale(m) == 6 * Unit + (35 * SqrtFine(m)) \div Fine

\* `cx, cy = R*math.cos(theta), R*math.sin(theta)` of community idx of K
Centre(idx, K, total) ==
    [x |-> TruncDiv(CircleRadius(total) * CircleTable[K][idx][1], Fine),
     y |-> TruncDiv(CircleRadius(total) * CircleTable[K][idx][2], Fine)]

\* the positions of one community: `pos[n] = (cx + x*scale, cy + y*scale)`;
\* subpos is the normalized local layout, in steps of 1/Fine
Placed(subpos, idx, K, total) ==
    [i \in 1..Len(subpos) |->
        [node |-> subpos[i].node,
         x |-> Centre(idx, K, total).x + TruncDiv(subpos[i].x * BoxScale(Len(subpos)), Fine),
         y |-> Centre(idx, K, total).y + TruncDiv(subpos[i].y * BoxScale(Len(subpos)), Fine)]]

\* `sum(sizes)`
TotalSize(cs) == Cardinality(UNION Range(cs))

\* pos of lines 104-111, from the local layouts subs of the communities cs
Packed(cs, subs) ==
    Flatten([idx \in 1..Len(cs) |->
                Placed(normalize_box(subs[idx]), idx, Len(cs), TotalSize(cs))])

RECURSIVE LocalLayouts(_, _)
\* the local layouts the spring_layout calls of lines 91-97 may return for
\* the first m communities
LocalLayouts(cs, m) ==
    IF m = 0 THEN { <<>> }
    ELSE { Append(t, l) : t \in LocalLayouts(cs, m - 1),
                          l \in spring_layout(Ascending(cs[m])) }

\* `k_local = 1.6 / (max(1, H.number_of_nodes()) ** 0.5)`
k_local(m) == (16000 * Fine) \div SqrtFine(Max(1, m))

\* one simulation over the nodes of all communities in place of the local ones
LocalSimulationsMerged(cs, iters) ==
    << Simulation(Ascending(UNION Range(cs)), k_local(Cardinality(UNION Range(cs))),
                  Max(200, iters \div 2)) >>

\* the spring_layout calls of lines 91-97
LocalSimulations(cs, iters) ==
    [idx \in 1..Len(cs) |->
        Simulation(Ascending(cs[idx]), k_local(Cardinality(cs[idx])),
                   Max(200, iters \div 2))]

-----------------------------------------------------------------------------
(* generate_graph_position.main: the steps                                  *)

\* lines 124-130
BuildLayoutGraph ==
    /\ lpc = "start"
    /\ G' = BuiltGraph(data)
    /\ lpc' = "built"
    /\ UNCHANGED <<fsvars, scanvars, scorevars, k, call, ret, data, comms, sims,
                   layout, written>>

\* line 142: one global simulation for fewer than COMMUNITY_THRESHOLD nodes
GlobalLayout ==
    /\ lpc = "built"
    /\ NodeCount(G) < COMMUNITY_THRESHOLD
    /\ \E l \in spring_layout(G.nodes) : layout' = l
    /\ sims' = << Simulation(G.nodes, adaptive_params(NodeCount(G)).k,
                             adaptive_params(NodeCount(G)).iters) >>
    /\ lpc' = "laid"
    /\ UNCHANGED <<fsvars, scanvars, scorevars, k, call, ret, data, G, comms, written>>

\* line 140: pack_communities(G, iterations, k)
PackCommunities ==
    /\ lpc = "built"
    /\ NodeCount(G) >= COMMUNITY_THRESHOLD
    /\ IF Len(G.nodes) = 0
       THEN /\ layout' = <<>>
            /\ UNCHANGED <<comms, sims>>
       ELSE \E cs \in greedy_modularity_communities(G) :
              /\ comms' = cs
              /\ IF Len(cs) <= 1
                 THEN /\ \E l \in spring_layout(G.nodes) : layout' = l
                      /\ sims' = << Simulation(G.nodes, adaptive_params(NodeCount(G)).k,
                                               adaptive_params(NodeCount(G)).iters) >>
                 ELSE /\ \E subs \in LocalLayouts(cs, Len(cs)) :
                            layout' = Packed(cs, subs)
                      /\ sims' = LocalSimulations(cs, adaptive_params(NodeCount(G)).iters)
    /\ lpc' = "laid"
    /\ UNCHANGED <<fsvars, scanvars, scorevars, k, call, ret, data, G, written>>

\* lines 145-147: `pos[node] = (x * spread, y * spread)`
Scaled(pos, spread) ==
    [i \in 1..Len(pos) |->
        [node |-> pos[i].node,
         x |-> TruncDiv(pos[i].x * spread, Fine),
         y |-> TruncDiv(pos[i].y * spread, Fine)]]

ScaleOut ==
    /\ lpc = "laid"
    /\ layout' = Scaled(layout, adaptive_params(NodeCount(G)).spread)
    /\ lpc' = "spread"
    /\ UNCHANGED <<fsvars, scanvars, scorevars, k, call, ret, data, G, comms, sims,
                   written>>

\* line 150: `pos = de_overlap(pos, min_dist=min_dist, passes=3)`
DeOverlap ==
    /\ lpc = "spread"
    /\ layout' = de_overlap(layout, adaptive_params(NodeCount(G)).min_d, 3)
    /\ lpc' = "separated"
    /\ UNCHANGED <<fsvars, scanvars, scorevars, k, call, ret, data, G, comms, sims,
                   written>>

\* `pos.get(nid, (0.0, 0.0))`
PositionOf(pos, nid) ==
    IF \E i \in 1..Len(pos) : pos[i].node = nid
    THEN LET i == CHOOSE j \in 1..Len(pos) : pos[j].node = nid
         IN  [x |-> pos[i].x, y |-> pos[i].y]
    ELSE [x |-> 0, y |-> 0]

\* lines 159-168: one record for each node record of the input
NodesOut(d, pos, view) ==
    [i \in 1..Len(d.nodes) |->
        [id    |-> d.nodes[i].id,
         label |-> IF d.nodes[i].label = NoLabel THEN d.nodes[i].id
                   ELSE d.nodes[i].label,
         x     |-> map_range(PositionOf(pos, d.nodes[i].id).x,
                             MinOver(Xs(pos)), MaxOver(Xs(pos)),
                             0 - (view.WIDTH * Unit) \div 2, (view.WIDTH * Unit) \div 2),
         y     |-> map_range(PositionOf(pos, d.nodes[i].id).y,
                             MinOver(Ys(pos)), MaxOver(Ys(pos)),
                             0 - (view.HEIGHT * Unit) \div 2, (view.HEIGHT * Unit) \div 2)]]

\* the edges of the input whose two ends are ids of input nodes
EdgesOutKnown(d) ==
    SelectSeq(d.edges,
              LAMBDA e : /\ \E i \in 1..Len(d.nodes) : d.nodes[i].id = e.source
                         /\ \E i \in 1..Len(d.nodes) : d.nodes[i].id = e.target)

\* line 170: `data.get("edges", [])`
EdgesOut(d) == d.edges

\* lines 153-171: the value written to the output file
WriteLayout ==
    /\ lpc = "separated"
    /\ written' = [ok |-> TRUE,
                   nodes |-> NodesOut(data, layout, adaptive_viewport(NodeCount(G))),
                   edges |-> EdgesOut(data)]
    /\ lpc' = "done"
    /\ UNCHANGED <<fsvars, scanvars, scorevars, k, call, ret, data, G, comms, sims,
                   layout>>

\* generate_graph_position.main alone
InitLayoutOnly ==
    /\ InitNoRepository /\ InitRun /\ call = NoCall /\ ret = None
    /\ InitLayout

NextLayout ==
    \/ BuildLayoutGraph
    \/ GlobalLayout
    \/ PackCommunities
    \/ ScaleOut
    \/ DeOverlap
    \/ WriteLayout

SpecLayout == InitLayoutOnly /\ [][NextLayout]_vars

-----------------------------------------------------------------------------
(* Vocabulary of the properties *)

NodeIds == { node_ids[i].id : i \in 1..Len(node_ids) }

\* the files build_dependency_graph scans
ScannedFiles == { p \in files : IsScannerSource(p, Root) }

\* the existing paths inside the root, by repository-relative name
InsideIds ==
    { AsPosix(RelativeTo(p, Root)) : p \in { q \in files \cup dirs : IsRelativeTo(q, Root) } }

\* number of edges from source id s to target id t
EdgeCount(s, t) ==
    Cardinality({ i \in 1..Len(edges) : edges[i].source = s /\ edges[i].target = t })

\* number of edges into target id t
InDegree(t) == Cardinality({ i \in 1..Len(edges) : edges[i].target = t })

\* number of edges out of source id s
OutDegree(s) == Cardinality({ i \in 1..Len(edges) : edges[i].source = s })

\* every path a JS/TS specifier of file f could stand for
JsCandidatePaths(spec, f) ==
    LET base == JoinResolve(Parent(f), spec) IN
    {base}
    \cup { WithExt(base, JS_TS_FILE_EXTS_TRY[i]) : i \in 1..Len(JS_TS_FILE_EXTS_TRY) }
    \cup { Append(base, JS_TS_INDEX_CANDIDATES[i]) : i \in 1..Len(JS_TS_INDEX_CANDIDATES) }

\* every path a Python module of file f could stand for, whichever directory
\* the first dot is taken to denote
PyCandidatePaths(module, f) ==
    LET remainder == LStripDots(module)
        dots == Len(module) - Len(remainder)
        parts == IF remainder = <<>> THEN <<>> ELSE SplitOn(remainder, DOT)
        ups == { Ascend(Parent(f), n) : n \in {dots, Max(dots - 1, 0)} }
    IN  UNION { { WithExt(up \o parts, DotName("py")),
                  Append(up \o parts, File("__init__", "py")) } : up \in ups }

\* statement st of file f names something that exists inside the root
ResolvableInside(st, f) ==
    \E c \in (IF st.kind \in RE_PY_IMPORTS
              THEN PyCandidatePaths(st.spec, f)
              ELSE JsCandidatePaths(st.spec, f)) :
        Exists(c) /\ IsRelativeTo(c, Root)

-----------------------------------------------------------------------------
(* C1 *)

\* C1: referential integrity -- in the graph build_dependency_graph returns,
\* the source id and the target id of every edge are ids of returned nodes.
C1_ReferentialIntegrity ==
    pc = "graph" =>
        \A i \in 1..Len(edges) :
            edges[i].source \in NodeIds /\ edges[i].target \in NodeIds

\* a returned graph with an edge to a file that was not scanned as a source
C1_Witness ==
    /\ pc = "graph"
    /\ \E i \in 1..Len(edges) :
         edges[i].target \notin { RelStr(p, Root) : p \in ScannedFiles }

-----------------------------------------------------------------------------
(* C2 *)

-----------------------------------------------------------------------------
(* C3 *)

\* both walkers have returned: the graph and the scorer's counts are there
BothBuilt == pc = "graph" /\ spc \in {"churn", "score", "sort", "done"}

\* st is a relative import of file B in a syntax both walkers read: a JS/TS
\* import or require of "./<name>" or "./<stem>", or a Python
\* `from .<stem> import`
IsRelativeImportOf(st, B) ==
    \/ /\ st.kind \in (JS_IMPORT_RE \cup JS_REQUIRE_RE)
       /\ Suffix(B) \in JS_TS_EXTS
       /\ st.spec \in { Here(Name(B)), Here(Stem(B)) }
    \/ /\ st.kind = "py_from"
       /\ Suffix(B) \in PY_EXTS
       /\ st.spec = <<DOT>> \o Stem(B)

\* the repository's sources are A, B and C of one directory, with three
\* different stems; A holds one import, of B; B and C import nothing
ScenarioA(A, B, C) ==
    /\ Len(text[A]) = 1 /\ text[B] = <<>> /\ text[C] = <<>>
    /\ Stem(A) # Stem(B) /\ Stem(B) # Stem(C) /\ Stem(A) # Stem(C)
    /\ Parent(A) = Parent(B) /\ Parent(B) = Parent(C)
    /\ IsRelativeImportOf(text[A][1], B)
    /\ ScannedFiles = {A, B, C}
    /\ { p \in files : IsScorerSource(p, Root) } = {A, B, C}

\* C3: Scenario A -- for three files A, B, C of one directory where A holds
\* exactly one relative import of B (JS/TS "./b" or Python ".b") and C neither
\* imports nor is imported, the graph has exactly 3 nodes and the one edge
\* A->B, and the scorer's count is 1 for B and 0 for A and C.
C3_ScenarioA ==
    BothBuilt =>
        \A A \in files, B \in files, C \in files :
            ScenarioA(A, B, C) =>
                /\ Len(node_ids) = 3
                /\ edges = << [source |-> RelStr(A, Root), target |-> RelStr(B, Root)] >>
                /\ CountOf(imported_by_count, RelStr(B, Root)) = 1
                /\ CountOf(imported_by_count, RelStr(A, Root)) = 0
                /\ CountOf(imported_by_count, RelStr(C, Root)) = 0

-----------------------------------------------------------------------------
(* C4 *)

\* C4: the scorer's imported_by_count of every scored file equals the number
\* of edges of the dependency graph whose target is that file.
C4_ReverseEdgeCount ==
    BothBuilt =>
        \A i \in 1..Len(imported_by_count) :
            imported_by_count[i][2] = InDegree(imported_by_count[i][1])

-----------------------------------------------------------------------------
(* C5 *)

\* the repository-relative names the resolver yields for the scanned files
ResolvedTargetIds ==
    UNION { { AsPosix(t) : t \in Range(extract_imports_for_file(f, Root)) } :
            f \in ScannedFiles }

\* C5: the returned graph has exactly one node per distinct path that is a
\* scanned source file or the resolved target of an import: no two nodes share
\* an id, and the node ids are exactly those paths (so a file that is only
\* imported has a node, and so has a scanned file without imports or importers).
C5_OneNodePerPath ==
    pc = "graph" =>
        /\ \A i, j \in 1..Len(node_ids) : node_ids[i].id = node_ids[j].id => i = j
        /\ NodeIds = { RelStr(p, Root) : p \in ScannedFiles } \cup ResolvedTargetIds

\* a returned graph with a node for data.json, which is imported and never
\* scanned, a node that is both scanned and imported, and an isolated node
C5_Witness ==
    /\ pc = "graph"
    /\ data_json \notin ScannedFiles
    /\ RelStr(data_json, Root) \in NodeIds
    /\ \E p \in ScannedFiles : InDegree(RelStr(p, Root)) > 0
    /\ \E p \in ScannedFiles :
         InDegree(RelStr(p, Root)) = 0 /\ OutDegree(RelStr(p, Root)) = 0

-----------------------------------------------------------------------------
(* C6 *)

\* what the resolver yields for the j-th import statement of f alone
YieldOfStatement(f, j) == ExtractFrom(<<text[f][j]>>, f, Root)

\* the resolver outputs of the scanned files, labelled with their source,
\* file after file in scan order
ExpectedEdges ==
    Flatten([i \in 1..Len(src_files) |->
        LET out == extract_imports_for_file(src_files[i], Root) IN
        [j \in 1..Len(out) |->
            [source |-> RelStr(src_files[i], Root), target |-> AsPosix(out[j])]]])

\* C6: duplicate edges are retained -- the returned edge list is the
\* concatenation, in scan order, of each source file's resolver output, and a
\* source with k import statements resolving to one target has exactly k
\* edges to it.
C6_DuplicatesRetained ==
    pc = "graph" =>
        /\ edges = ExpectedEdges
        /\ \A f \in ScannedFiles : \A t \in NodeIds :
             EdgeCount(RelStr(f, Root), t) =
                Cardinality({ j \in 1..Len(text[f]) :
                                /\ YieldOfStatement(f, j) # <<>>
                                /\ AsPosix(YieldOfStatement(f, j)[1]) = t })

\* a returned graph whose first two edges are the same edge, from a file with
\* two import statements
C6_Witness ==
    /\ pc = "graph"
    /\ Len(edges) = 2
    /\ edges[1] = edges[2]
    /\ \E f \in ScannedFiles : Len(text[f]) = 2 /\ RelStr(f, Root) = edges[1].source

-----------------------------------------------------------------------------
(* Vocabulary of the scorer's properties *)

\* score_files has returned normally
Returned == spc = "done"

\* position of the file of record r in the file enumeration
PosInFiles(r) == CHOOSE n \in 1..Len(sfiles) : RelStr(sfiles[n], Root) = r.rel

\* the files detect_entrypoint flags
Detected ==
    { n \in 1..Len(sfiles) :
        detect_entrypoint(sfiles[n], read_text_safely(sfiles[n]).cues) = 1 }

\* a is not below b in (score, runtime_signal, reverse_edge_count, -byte_size)
NotBelow(a, b) ==
    \/ a.score > b.score
    \/ /\ a.score = b.score
       /\ \/ a.runtime_signal > b.runtime_signal
          \/ /\ a.runtime_signal = b.runtime_signal
             /\ \/ a.imported_by_count > b.imported_by_count
                \/ /\ a.imported_by_count = b.imported_by_count
                   /\ a.bytes <= b.bytes

SameRank(a, b) ==
    /\ a.score = b.score
    /\ a.runtime_signal = b.runtime_signal
    /\ a.imported_by_count = b.imported_by_count

-----------------------------------------------------------------------------
(* C7 *)

\* C7: in every record score_files returns, the stored score equals
\* 4*is_entrypoint + 3*runtime_signal + 2*imported_by_count
\* + min(recent_commits_touching, cap) - 3*tooling_config
\* - 2*is_test_or_fixture - is_types_only of the components stored in that
\* record, the record flagged by the fallback included.
C7_ScoreFormula ==
    Returned =>
        \A i \in 1..Len(result) :
            LET c == result[i] IN
            c.score = 4 * c.is_entrypoint + 3 * c.runtime_signal
                      + 2 * c.imported_by_count
                      + Min(c.recent_commits_touching, CHURN_CAP)
                      - 3 * c.tooling_config - 2 * c.is_test_or_fixture
                      - c.is_types_only

\* a returned record that the fallback flagged, of a file touched more often
\* than the cap
C7_Witness ==
    /\ Returned
    /\ Detected = {}
    /\ \E i \in 1..Len(result) :
         /\ result[i].is_entrypoint = 1
         /\ result[i].recent_commits_touching > CHURN_CAP

-----------------------------------------------------------------------------
(* C8 *)

\* C8: entrypoint fallback -- after the fallback, when no file of a non-empty
\* file set was detected as an entrypoint, exactly one record has
\* is_entrypoint = 1, no record has a larger imported_by_count, and every file
\* enumerated before it has a smaller one; when some file was detected, every
\* record is as the scoring loop left it.
C8_EntrypointFallback ==
    (spc \in {"sort", "done"} /\ Len(sfiles) > 0) =>
        /\ Len(scored) = Len(sfiles)
        /\ IF Detected = {}
           THEN \E i \in 1..Len(scored) :
                  /\ \A j \in 1..Len(scored) : scored[j].is_entrypoint = 1 <=> j = i
                  /\ \A j \in 1..Len(scored) :
                       scored[j].imported_by_count <= scored[i].imported_by_count
                  /\ \A j \in 1..Len(scored) :
                       PosInFiles(scored[j]) < PosInFiles(scored[i]) =>
                          scored[j].imported_by_count < scored[i].imported_by_count
           ELSE \A i \in 1..Len(scored) :
                  scored[i] = ScoreRecord(sfiles[PosInFiles(scored[i])], Root)

\* the fallback flagged a file that is not the first enumerated and that ties
\* with a later file on a positive count
C8_Witness ==
    /\ spc = "sort"
    /\ Detected = {}
    /\ \E i \in 2..Len(scored) :
         /\ scored[i].is_entrypoint = 1
         /\ scored[i].imported_by_count > 0
         /\ \E j \in (i + 1)..Len(scored) :
              scored[j].imported_by_count = scored[i].imported_by_count

-----------------------------------------------------------------------------
(* C9 *)

\* C9: in the returned list every record is followed by one that is not above
\* it in (score, runtime_signal, reverse_edge_count, -byte_size); of two
\* adjacent records equal in score, runtime_signal and reverse_edge_count the
\* one with fewer bytes is first.
C9_FinalOrder ==
    Returned =>
        \A i \in 1..(Len(result) - 1) :
            /\ NotBelow(result[i], result[i + 1])
            /\ SameRank(result[i], result[i + 1]) =>
                 result[i].bytes <= result[i + 1].bytes

\* two adjacent returned records of equal rank where the smaller file, which
\* was enumerated later, comes first
C9_Witness ==
    /\ Returned
    /\ \E i \in 1..(Len(result) - 1) :
         /\ SameRank(result[i], result[i + 1])
         /\ result[i].bytes < result[i + 1].bytes
         /\ PosInFiles(result[i]) > PosInFiles(result[i + 1])

-----------------------------------------------------------------------------
(* C10 *)

\* the returned list is the first min(N, number of scored files) records of
\* the full ordering, which holds every scored file once
TopNOfFullOrdering ==
    /\ Len(result) = Min(top_n, Len(sfiles))
    /\ Len(scored) = Len(sfiles)
    /\ \A n \in 1..Len(sfiles) :
         Cardinality({ i \in 1..Len(scored) : scored[i].rel = RelStr(sfiles[n], Root) }) = 1
    /\ \A i \in 1..(Len(scored) - 1) : NotBelow(scored[i], scored[i + 1])
    /\ \A i \in 1..Len(result) : result[i] = scored[i]
    /\ top_n >= Len(sfiles) =>
         \A n \in 1..Len(sfiles) :
            Cardinality({ i \in 1..Len(result) : result[i].rel = RelStr(sfiles[n], Root) }) = 1

\* C10 as stated: for every caller-supplied N, score_files returns exactly
\* min(N, number of scored files) records, the N highest of the full
\* ordering, and every scored file once when N is at least their number.
C10_TopNAnyN == Returned => TopNOfFullOrdering

\* C10 amended: for every caller-supplied N >= 0, score_files returns exactly
\* min(N, number of scored files) records, the N highest of the full
\* ordering, and every scored file once when N is at least their number.
C10_TopN == (Returned /\ top_n >= 0) => TopNOfFullOrdering

\* a return that cut the ranking: 0 < N < number of scored files
C10_Witness ==
    /\ Returned
    /\ 0 < top_n
    /\ top_n < Len(sfiles)
    /\ Len(result) = top_n

-----------------------------------------------------------------------------
(* C11 *)

\* score_files has ended, by a return or by an exception
Ended == spc \in {"done", "raised"}

\* C11: when the revision history is unavailable (`git log` fails), score_files
\* still returns the ranked records of all scored files, each with
\* recent_commits_touching = 0; the failure does not end scoring.
C11_HistoryUnavailable ==
    (Ended /\ git_rc # 0 /\ Len(sfiles) > 0) =>
        /\ Returned
        /\ Len(scored) = Len(sfiles)
        /\ \A i \in 1..Len(scored) : scored[i].recent_commits_touching = 0

-----------------------------------------------------------------------------
(* C12 *)

\* the content of p in the repository where every unreadable file is empty
AsIfEmpty(p) ==
    IF p \in unreadable THEN [stmts |-> <<>>, cues |-> NoMarks]
    ELSE [stmts |-> text[p], cues |-> marks[p]]

\* the stems a content names in import statements the scorer reads
KeysIn(p, stmts) ==
    IF Suffix(p) = DotName("py") THEN PyImportedKeys(stmts)
    ELSE IF Suffix(p) \in SCORER_JS_SUFFIXES THEN JsImportedKeys(stmts)
    ELSE {}

\* the import counts of the repository where every unreadable file is empty
ItemsAsIfEmpty ==
    [i \in 1..Len(sfiles) |->
        << RelStr(sfiles[i], Root),
           Cardinality({ j \in 1..Len(sfiles) :
                           Stem(sfiles[i]) \in KeysIn(sfiles[j], AsIfEmpty(sfiles[j]).stmts) }) >>]

\* the records, after the fallback, of the repository where every unreadable
\* file is empty
ScoredAsIfEmpty ==
    Fallback([i \in 1..Len(sfiles) |->
                 ScoreRecordOf(sfiles[i], Root, AsIfEmpty(sfiles[i]).cues,
                               ItemsAsIfEmpty, churn)],
             ItemsAsIfEmpty)

\* C12: a file whose content cannot be read is scored as if it were empty --
\* reading raises no error, the file's runtime_signal is its path hint only and
\* its is_entrypoint comes from its name or the fallback only, and every
\* record (import counts and scores of all files) is the one the repository
\* with that file empty gives.
C12_UnreadableAsEmpty ==
    /\ (Ended /\ git_rc = 0) => Returned
    /\ spc = "sort" => scored = ScoredAsIfEmpty
    /\ (Returned /\ Len(sfiles) > 0) =>
         /\ scored = SortDesc(ScoredAsIfEmpty)
         /\ imported_by_count = ItemsAsIfEmpty
         /\ \A i \in 1..Len(scored) :
              LET u == sfiles[PosInFiles(scored[i])] IN
              u \in unreadable =>
                 /\ scored[i].runtime_signal =
                       Bit(\E h \in RUNTIME_PATH_HINTS : Contains(scored[i].rel, h))
                 /\ scored[i].is_entrypoint = 1 =>
                       \/ Stem(u)[1] \in ENTRYPOINT_NAMES
                       \/ \A j \in 1..Len(scored) :
                            scored[j].is_entrypoint = 1 => j = i

\* score_files returned after scoring an unreadable file whose content holds
\* cues and an import of a scored file that no readable file imports
C12_Witness ==
    /\ Returned
    /\ \E i \in 1..Len(sfiles), j \in 1..Len(sfiles) :
         /\ sfiles[i] \in unreadable
         /\ marks[sfiles[i]] # NoMarks
         /\ Stem(sfiles[j]) \in KeysIn(sfiles[i], text[sfiles[i]])
         /\ CountOf(imported_by_count, RelStr(sfiles[j], Root)) = 0

-----------------------------------------------------------------------------
(* C13 *)

\* p is a source file of the repository by name and place, whatever its size
IsSourceByName(p) ==
    /\ IsRelativeTo(p, Root)
    /\ p \in files
    /\ Suffix(p) \in DEFAULT_EXTS
    /\ \A i \in (Len(Root) + 1)..Len(p) : p[i] \notin IGNORE_DIRS

\* C13: oversized files are truncated, never rejected -- once the scorer has
\* enumerated its files, every source file larger than MAX_FILE_BYTES is among
\* the scored files.
C13_OversizedKept ==
    spc \notin {"start"} =>
        \A p \in files :
            (IsSourceByName(p) /\ size[p] > MAX_FILE_BYTES) =>
                \E i \in 1..Len(sfiles) : sfiles[i] = p

-----------------------------------------------------------------------------
(* C15 *)

\* C15: monotonic scoring -- of two component assignments that differ only in
\* reverse_edge_count the one with the larger count has a score that is not
\* lower, and the scores differ by exactly 2 per incoming edge.
C15_MonotonicScoring ==
    (call.fn = "score" /\ ret.ok) =>
        /\ call.a.imported_by_count <= call.b.imported_by_count => ret.a <= ret.b
        /\ ret.b - ret.a = 2 * (call.b.imported_by_count - call.a.imported_by_count)

\* both scores are computed for assignments whose counts differ, with churn
\* above the cap and a penalty set
C15_Witness ==
    /\ call.fn = "score"
    /\ ret.ok
    /\ call.a.imported_by_count < call.b.imported_by_count
    /\ call.a.recent_commits_touching > CHURN_CAP
    /\ call.a.tooling_config = 1
    /\ ret.a < ret.b

-----------------------------------------------------------------------------
(* C18 *)

\* the first path of cands that is a file, as an option
RECURSIVE FirstFile(_)
FirstFile(cands) ==
    IF Len(cands) = 0 THEN None
    ELSE IF cands[1] \in files THEN Some(cands[1])
    ELSE FirstFile(Tail(cands))

\* the stated resolution of a relative JS/TS/Vue specifier written in src_file
StatedJsResolution(spec, src_file) ==
    LET base == JoinResolve(Parent(src_file), spec)
        exts == << DotName("ts"), DotName("tsx"), DotName("js"), DotName("jsx"),
                   DotName("mjs"), DotName("cjs"), DotName("vue"), DotName("json") >>
        idx  == << File("index", "ts"), File("index", "tsx"), File("index", "js"),
                   File("index", "jsx"), File("index", "mjs"), File("index", "cjs"),
                   File("index", "vue") >>
        byExt == FirstFile([i \in 1..Len(exts) |-> WithExt(base, exts[i])])
        byIndex == FirstFile([i \in 1..Len(idx) |-> Append(base, idx[i])])
    IN  IF Suffix(base) # <<>> /\ base \in files THEN Some(base)
        ELSE IF byExt.ok THEN byExt
        ELSE IF base \in dirs THEN byIndex
        ELSE None

\* the relative statements of the scanned JS/TS files, as <<file, index>>
RelativeJsStatements ==
    { fj \in UNION { {f} \X (1..Len(text[f])) : f \in ScannedFiles } :
        /\ Suffix(fj[1]) \in JS_TS_EXTS
        /\ text[fj[1]][fj[2]].kind \in RE_JS_IMPORTS
        /\ StartsWith(text[fj[1]][fj[2]].spec, <<DOT>>) }

\* C18: once the graph is built, every relative JS/TS specifier of a scanned
\* file was resolved in the stated order: the specifier itself when it has an
\* extension and that file exists, else the first existing file among the
\* specifier with .ts, .tsx, .js, .jsx, .mjs, .cjs, .vue, .json appended, else
\* for a directory its first existing index file in the order index.ts,
\* index.tsx, index.js, index.jsx, index.mjs, index.cjs, index.vue, else
\* nothing.
C18_ResolutionOrder ==
    pc = "graph" =>
        \A fj \in RelativeJsStatements :
            resolve_js_like(text[fj[1]][fj[2]].spec, fj[1], Root)
               = StatedJsResolution(text[fj[1]][fj[2]].spec, fj[1])

-----------------------------------------------------------------------------
(* C19 *)

\* the specifier of st does not begin with a dot
IsBare(st) == ~StartsWith(st.spec, <<DOT>>)

\* the statements of f that are not bare
RelativeStatements(f) == SelectSeq(text[f], LAMBDA st : ~IsBare(st))

\* the edges the scanned files give when their bare imports are left out
EdgesOfRelativeStatements ==
    Flatten([i \in 1..Len(src_files) |->
        LET out == ExtractFrom(RelativeStatements(src_files[i]), src_files[i], Root) IN
        [j \in 1..Len(out) |->
            [source |-> RelStr(src_files[i], Root), target |-> AsPosix(out[j])]]])

\* C19: bare package-style specifiers are ignored -- the returned edges are
\* those of the relative import statements alone, a file whose imports are all
\* bare has no outgoing edge, and every node is a scanned source or the target
\* of an edge.
C19_BareIgnored ==
    pc = "graph" =>
        /\ edges = EdgesOfRelativeStatements
        /\ \A f \in ScannedFiles :
             (\A j \in 1..Len(text[f]) : IsBare(text[f][j])) =>
                 OutDegree(RelStr(f, Root)) = 0
        /\ NodeIds = { RelStr(f, Root) : f \in ScannedFiles }
                        \cup { edges[i].target : i \in 1..Len(edges) }

\* the graph is built of a repository where a scanned file imports the bare
\* name "b" while a file b.* lies next to it
C19_Witness ==
    /\ pc = "graph"
    /\ \E f \in ScannedFiles :
         /\ \E j \in 1..Len(text[f]) : text[f][j].spec = Tok("b")
         /\ \E g \in files : Parent(g) = Parent(f) /\ Stem(g) = Tok("b")

-----------------------------------------------------------------------------
(* C17 *)

\* the square of the distance between nodes i and j of the layout pos
Dist2(pos, i, j) ==
    (pos[j].x - pos[i].x) * (pos[j].x - pos[i].x)
    + (pos[j].y - pos[i].y) * (pos[j].y - pos[i].y)

\* C17: de-overlap monotonicity -- for every layout of three or more nodes and
\* every pair of nodes closer than min_dist before a de_overlap pass, the
\* pair's distance after the pass is at least its distance before.
C17_DeOverlapMonotone ==
    (call.fn = "de_overlap" /\ ret.ok /\ call.passes = 1 /\ Len(call.pos) >= 3) =>
        \A i \in 1..Len(call.pos), j \in 1..Len(call.pos) :
            (i < j /\ Dist2(call.pos, i, j) < call.min_dist * call.min_dist) =>
                Dist2(ret.pos, i, j) >= Dist2(call.pos, i, j)

-----------------------------------------------------------------------------
(* Properties of generate_graph_position.main *)

\* the ids of the node records of the input
InputIds == { data.nodes[i].id : i \in 1..Len(data.nodes) }

\* main has written its output
Written == lpc = "done" /\ written.ok

\* C14: dangling edges are rejected -- when the layout input has an edge whose
\* source or target is not the id of an input node, no layout containing that
\* edge is emitted: every edge of a written output joins two input node ids.
C14_DanglingEdgeRejected ==
    Written =>
        \A i \in 1..Len(written.edges) :
            /\ written.edges[i].source \in InputIds
            /\ written.edges[i].target \in InputIds

\* the midpoint of the output range of an axis of extent `extent`
RangeMidpoint(extent) ==
    TruncDiv((0 - (extent * Unit) \div 2) + (extent * Unit) \div 2, 2)

\* C16: layout degenerate cases -- for an input with no nodes and no edges the
\* written output has an empty node list and an empty edge list; for an input
\* with exactly one node, the coordinates of that node in the output are the
\* centre of the viewport, the midpoint of the output range on each axis.
C16_DegenerateCases ==
    Written =>
        /\ (Len(data.nodes) = 0 /\ Len(data.edges) = 0)
              => (written.nodes = <<>> /\ written.edges = <<>>)
        /\ Len(data.nodes) = 1
              => /\ Len(written.nodes) = 1
                 /\ written.nodes[1].x
                      = RangeMidpoint(adaptive_viewport(NodeCount(G)).WIDTH)
                 /\ written.nodes[1].y
                      = RangeMidpoint(adaptive_viewport(NodeCount(G)).HEIGHT)

\* a single node that the simulation did not place at the origin has been
\* written
C16_Witness ==
    /\ Written
    /\ Len(data.nodes) = 1
    /\ Len(layout) = 1
    /\ layout[1].x # 0
    /\ layout[1].y # 0

RECURSIVE SumOver(_, _)
\* the sum of f over the indices in I
SumOver(f, I) ==
    IF I = {} THEN 0
    ELSE LET i == CHOOSE j \in I : TRUE IN f[i] + SumOver(f, I \ {i})

\* the centroid of the nodes of the group c in the layout pos
Centroid(pos, c) ==
    LET I == { i \in 1..Len(pos) : pos[i].node \in c }
    IN  [x |-> TruncDiv(SumOver([i \in I |-> pos[i].x], I), Cardinality(I)),
         y |-> TruncDiv(SumOver([i \in I |-> pos[i].y], I), Cardinality(I))]

\* the local spread radius of a group: half the extent of its scaled local box
SpreadRadius(c) == BoxScale(Cardinality(c)) \div 2

\* pack_communities has returned the layout of the two-cluster graph
PackedTwoClusters == lpc = "laid" /\ data = TwoClusters

\* C20: Scenario B -- for two disconnected clusters of 40 nodes each,
\* community partitioning yields at least two groups, and in the packed
\* layout the distance between the centroids of any two groups exceeds the
\* local spread radius of either group.
C20_ScenarioB ==
    PackedTwoClusters =>
        /\ Len(comms) >= 2
        /\ \A i \in 1..Len(comms), j \in 1..Len(comms) :
              i < j =>
                LET a == Centroid(layout, comms[i])
                    b == Centroid(layout, comms[j])
                    d2 == (a.x - b.x) * (a.x - b.x) + (a.y - b.y) * (a.y - b.y)
                IN  /\ d2 > SpreadRadius(comms[i]) * SpreadRadius(comms[i])
                    /\ d2 > SpreadRadius(comms[j]) * SpreadRadius(comms[j])

\* the two clusters were detected as two groups and packed, the nodes of the
\* first group not all on one vertical line
C20_Witness ==
    /\ PackedTwoClusters
    /\ Len(comms) = 2
    /\ Len(layout) = 2 * ClusterSize
    /\ layout[1].x # layout[2].x

-----------------------------------------------------------------------------
(* C21 *)

\* the stated resolution of a leading-dot module written in src_file: one dot
\* is the directory of src_file, each further dot one more ancestor
StatedPyResolution(module, src_file) ==
    LET remainder == LStripDots(module)
        dots == Len(module) - Len(remainder)
        up == Ascend(Parent(src_file), dots - 1)
        path == IF remainder # <<>> THEN up \o SplitOn(remainder, DOT) ELSE up
    IN  FirstExisting(<< WithExt(path, DotName("py")),
                         Append(path, File("__init__", "py")) >>)

\* the leading-dot statements of the scanned Python files, as <<file, index>>
RelativePyStatements ==
    { fj \in UNION { {f} \X (1..Len(text[f])) : f \in ScannedFiles } :
        /\ Suffix(fj[1]) \in PY_EXTS
        /\ text[fj[1]][fj[2]].kind \in RE_PY_IMPORTS
        /\ StartsWith(text[fj[1]][fj[2]].spec, <<DOT>>) }

\* C21: once the graph is built, every leading-dot Python import of a scanned
\* file in directory D was resolved with one dot denoting D and each further
\* dot one more ancestor of D, the remaining components applied as path
\* components, to <path>.py or failing that <path>/__init__.py; so
\* `from .b import x` in D/a.py is resolved to D/b.py when that file exists.
C21_PythonDots ==
    pc = "graph" =>
        \A fj \in RelativePyStatements :
            resolve_py_like(text[fj[1]][fj[2]].spec, fj[1], Root)
               = StatedPyResolution(text[fj[1]][fj[2]].spec, fj[1])

-----------------------------------------------------------------------------
(* C22 *)

\* main has chosen and run its layout strategy
LaidOut == lpc \in {"laid", "spread", "separated", "done"}

\* sim is a simulation over the whole graph
IsGlobal(sim) == sim.nodes = G.nodes

\* C22: layout branch selection -- once the layout is chosen: with fewer
\* than 60 distinct nodes exactly one simulation was run, over the whole
\* graph; with 60 or more nodes communities were detected, and a single
\* community gave exactly one simulation over the whole graph, while several
\* communities gave one simulation for each community, over its nodes, and
\* none over the whole graph; every simulation used the same fixed seed.
C22_BranchSelection ==
    LaidOut =>
        /\ IF Len(G.nodes) < COMMUNITY_THRESHOLD
           THEN Len(sims) = 1 /\ IsGlobal(sims[1])
           ELSE /\ Len(comms) >= 1
                /\ IF Len(comms) = 1
                   THEN Len(sims) = 1 /\ IsGlobal(sims[1])
                   ELSE /\ Len(sims) = Len(comms)
                        /\ \A i \in 1..Len(sims) :
                              Range(sims[i].nodes) = comms[i] /\ ~IsGlobal(sims[i])
        /\ \A i \in 1..Len(sims) : sims[i].seed = SEED

\* a graph at the threshold whose nodes were detected as several communities
\* has been laid out
C22_Witness ==
    /\ LaidOut
    /\ Len(G.nodes) >= COMMUNITY_THRESHOLD
    /\ Len(comms) >= 2
    /\ Len(sims) = Len(comms)

-----------------------------------------------------------------------------
(* C23 *)

\* C23: every parameter adaptive_params returns -- repulsion strength k,
\* spread multiplier, minimum clearance, iteration count -- is non-decreasing
\* in the node count: for n1 <= n2 each parameter at n2 is at least its value
\* at n1; and the iteration count never exceeds 800.
C23_ParamsMonotone ==
    (call.fn = "adaptive_params" /\ ret.ok) =>
        /\ ret.b.k >= ret.a.k
        /\ ret.b.spread >= ret.a.spread
        /\ ret.b.min_d >= ret.a.min_d
        /\ ret.b.iters >= ret.a.iters
        /\ ret.a.iters <= 800
        /\ ret.b.iters <= 800

-----------------------------------------------------------------------------
(* C24 *)

\* adaptive_viewport is non-decreasing in n and lies between 1800 x 950 and
\* 3960 x 2090
ViewportGrowsBounded ==
    \A n1 \in 0..MaxViewportCount : \A n2 \in n1..MaxViewportCount :
        /\ adaptive_viewport(n1).WIDTH <= adaptive_viewport(n2).WIDTH
        /\ adaptive_viewport(n1).HEIGHT <= adaptive_viewport(n2).HEIGHT
        /\ 1800 <= adaptive_viewport(n1).WIDTH /\ adaptive_viewport(n2).WIDTH <= 3960
        /\ 950 <= adaptive_viewport(n1).HEIGHT /\ adaptive_viewport(n2).HEIGHT <= 2090

\* the coordinates c of the written node records span the output range of an
\* axis of extent `extent`: all inside it, and both ends taken when the
\* positions vs of the axis are not all equal
SpansRange(c, vs, extent) ==
    /\ \A i \in 1..Len(c) :
         0 - (extent * Unit) \div 2 <= c[i] /\ c[i] <= (extent * Unit) \div 2
    /\ (Cardinality(vs) >= 2 /\ Len(c) > 0) =>
         /\ \E i \in 1..Len(c) : c[i] = 0 - (extent * Unit) \div 2
         /\ \E i \in 1..Len(c) : c[i] = (extent * Unit) \div 2

-----------------------------------------------------------------------------
(* C25 *)

\* C25: the layout step leaves the graph structure unchanged -- the written
\* edge list is the input edge list, the same edges in the same order with
\* duplicates and direction kept; every written node record has the id and
\* the label of the input node record at its place; and x and y are the only
\* attributes added.
C25_StructureUnchanged ==
    Written =>
        /\ written.edges = data.edges
        /\ Len(written.nodes) = Len(data.nodes)
        /\ \A i \in 1..Len(data.nodes) :
             /\ written.nodes[i].id = data.nodes[i].id
             /\ data.nodes[i].label # NoLabel
                   => written.nodes[i].label = data.nodes[i].label
             /\ DOMAIN written.nodes[i] = {"id", "label", "x", "y"}

\* an output was written for an input with a repeated edge and with an edge
\* that is not in the graph the layout was computed on
C25_Witness ==
    /\ Written
    /\ Len(data.nodes) >= 1
    /\ data.nodes[1].label # NoLabel
    /\ Len(data.edges) = 2
    /\ data.edges[1] = data.edges[2]
    /\ G.edges = {}


(* C26 *)

\* C26: de-overlap of a pair -- for a layout of exactly two nodes at a distance
\* d with 0 <= d < min_dist (two nodes at identical coordinates included),
\* after de_overlap the two displacements are equal and opposite and the
\* distance of the two nodes is min_dist (to within 0.03 units, the rounding
\* of the fixed-point coordinates).
C26_PairSeparated ==
    (call.fn = "de_overlap" /\ ret.ok /\ Len(call.pos) = 2
        /\ Dist2(call.pos, 1, 2) < call.min_dist * call.min_dist) =>
        /\ ret.pos[1].x - call.pos[1].x = -(ret.pos[2].x - call.pos[2].x)
        /\ ret.pos[1].y - call.pos[1].y = -(ret.pos[2].y - call.pos[2].y)
        /\ Dist2(ret.pos, 1, 2) >= (call.min_dist - 3) * (call.min_dist - 3)
        /\ Dist2(ret.pos, 1, 2) <= (call.min_dist + 3) * (call.min_dist + 3)


(* C27 *)

\* the names of the directories that hold tests or fixtures
TestDirNames == { Tok("test"), Tok("tests"), Tok("fixtures") }

\* file p lies inside a directory of such a name, at any depth below the root
InTestDir(p) ==
    \E i \in 1..(Len(RelativeTo(p, Root)) - 1) : RelativeTo(p, Root)[i] \in TestDirNames

\* C27: test directories -- every returned record of a file that lies inside a
\* directory named test, tests or fixtures, at any depth of its path relative
\* to the repository (the first component included), has is_test_or_fixture = 1
\* and a score that carries the test penalty of -2.
C27_TestDirectories ==
    Returned =>
        \A i \in 1..Len(result) : \A p \in files :
            (RelStr(p, Root) = result[i].rel /\ InTestDir(p)) =>
                LET c == result[i] IN
                /\ c.is_test_or_fixture = 1
                /\ c.score = 4 * c.is_entrypoint + 3 * c.runtime_signal
                             + 2 * c.imported_by_count
                             + Min(c.recent_commits_touching, CHURN_CAP)
                             - 3 * c.tooling_config - c.is_types_only - 2


(* C28 *)

\* the repository-relative names of the regular files inside the root
FileIds == { RelStr(p, Root) : p \in { q \in files : IsRelativeTo(q, Root) } }

\* C28: once the graph is built, every target the import resolver yielded for
\* a scanned file is an existing regular file (never a directory, also for a
\* specifier with a dot in its last component that names a directory), and
\* every node of the graph denotes a file.
C28_TargetsAreFiles ==
    pc = "graph" =>
        /\ \A f \in ScannedFiles :
             \A t \in Range(extract_imports_for_file(f, Root)) : InRepo(t) \in files
        /\ NodeIds \subseteq FileIds


(* C29 *)

\* the existing paths inside the root that lie below an ignored directory
BelowIgnoredDir ==
    { p \in { q \in files \cup dirs : IsRelativeTo(q, Root) } :
        \E i \in (Len(Root) + 1)..(Len(p) - 1) : should_ignore_dir(p[i]) }

\* C29: once the graph is built, no node has a path with a directory component
\* that is ignored (a name of IGNORED_DIRS or a name that starts with a dot),
\* whether the node came from the walk or from the resolution of an import.
C29_NoIgnoredNode ==
    pc = "graph" =>
        \A p \in BelowIgnoredDir : RelStr(p, Root) \notin NodeIds


(* C30 *)

\* C30: whenever score_files has returned for N >= 1 and a non-empty file
\* set, the returned top-N list holds at least one record with
\* is_entrypoint = 1, also when the only flagged file is the one the fallback
\* designated.
C30_EntrypointInTopN ==
    (Returned /\ top_n >= 1 /\ Len(sfiles) >= 1) =>
        \E i \in 1..Len(result) : result[i].is_entrypoint = 1

====
